---- MODULE Spec2Model ----
(***************************************************************************)
(* A model of the real-time layer of chat-service: the Socket.IO gateway   *)
(* of src/app.js, the Redis-backed presence / typing / active-chat store   *)
(* of the RedisClient class (src/models/chatModels.js, lines 708-1246),    *)
(* the Message documents of src/models/Message.js and the rate limiter of  *)
(* src/utils/chatHelpers.js.                                               *)
(*                                                                         *)
(* Time is the wall clock in milliseconds (Date.now()).  A Redis key       *)
(* written with SETEX ttl at time t is readable while now < t + ttl*1000.  *)
(* A connection is modelled from the point where its handlers run with the *)
(* actor id read at app.js:215; the handshake itself is not part of the    *)
(* state.                                                                  *)
(***************************************************************************)
EXTENDS Integers, Sequences, FiniteSets, TLC

VARIABLES
    now,          \* Date.now(), in milliseconds
    connState,    \* socket id -> "free" | "open" | "closed" | "killed"
    connUser,     \* socket id -> userId bound at app.js:215
    connInst,     \* socket id -> the service instance holding the socket
    connRooms,    \* socket id -> the Socket.IO rooms the socket has joined
    presence,     \* Redis user:online:<userId>
    activeChat,   \* Redis user:active_chat:<userId>
    typing,       \* Redis typing:<chatId>:<userId>
    rateKeys,     \* Redis rate_limit:<userId>:message
    messages,     \* Message collection, message id = index
    chatMsgCache, \* Redis: the cached message lists, each under its key
    timers,       \* pending setTimeout callbacks of handleTypingStart, in order
    calls,        \* in-flight checkRateLimit calls, one per caller
    lastOp,       \* the inbound event the last step handled
    out,          \* what that step emitted and published, in program order
    seen,         \* history: typing announcements delivered, per socket
    typingOps,    \* history: typing_start / typing_stop events sent, per socket
    rlLog,        \* history: the completed checkRateLimit calls, in order
    offlineAt,    \* history: userId -> time of the last user_offline broadcast
    endedAt,      \* history: socket id -> time the socket ended, -1 while not
    authCache,    \* frappeService.authCache: token -> expiry of the cached user
    lastAuth,     \* history: the last connection request and what decided it
    faults        \* which collaborators fail now: the Redis store, the publishers

vars == <<now, connState, connUser, connInst, connRooms, presence, activeChat,
          typing, rateKeys, messages, chatMsgCache, timers, calls, lastOp,
          out, seen, typingOps, rlLog, offlineAt, endedAt, authCache, lastAuth,
          faults>>

-----------------------------------------------------------------------------
(* Bounds of the model *)

MaxMsgs == 1        \* send_message events handled
MaxTypingOps == 2   \* typing_start / typing_stop events sent by one socket
MaxTicks == 4       \* steps of the clock
Limit == 5          \* maxActions of the checkRateLimit calls under study

(* The fixed content of the Message Store's chat collection *)

Users == {"A", "B", "C"}
ChatIds == {"R"}
MissingChat == "X"      \* an id no chat document has
NoChatId == ""          \* a payload without chatId
OtherChat == "S"        \* a second chat, of B and C
Participants(r) ==
    IF r = "R" THEN {"A", "B"} ELSE IF r = OtherChat THEN {"B", "C"} ELSE {}
ChatExists(r) == r \in ChatIds \cup {OtherChat}

\* the sockets: socket k, once opened, belongs to one actor
Conns == {1, 2, 3}
Instances == {1, 2}
NoUser == ""

-----------------------------------------------------------------------------
(* Socket.IO rooms and emission *)

UserRoom(u) == <<"user", u>>
ChatRoom(r) == <<"chat", r>>
PlainRoom(r) == <<"plain", r>>
GroupRoom(r) == <<"groupchat", r>>      \* room r of the /groupchat namespace

Open == {c \in Conns : connState[c] = "open"}
InRoom(room) == {c \in Open : room \in connRooms[c]}

\* an emitted event: its recipients, its name and the payload fields kept
Ev(to, ev, u, r, m, text, n) ==
    [to |-> to, via |-> "socket", ev |-> ev, user |-> u, chat |-> r,
     msg |-> m, text |-> text, count |-> n, ids |-> {}, content |-> <<>>]

MessageEv(to, ev, u, r, m, content) ==
    [to |-> to, via |-> "socket", ev |-> ev, user |-> u, chat |-> r,
     msg |-> m, text |-> "", count |-> 0, ids |-> {}, content |-> content]

ReadEv(to, ev, u, r, ids, n) ==
    [to |-> to, via |-> "socket", ev |-> ev, user |-> u, chat |-> r,
     msg |-> 0, text |-> "", count |-> n, ids |-> ids, content |-> <<>>]

\* publishToService(service, eventType, data): an event on a service channel
Pub(channel, type, u, r) ==
    [to |-> {}, via |-> channel, ev |-> type, user |-> u, chat |-> r,
     msg |-> 0, text |-> "", count |-> 0, ids |-> {}, content |-> <<>>]

publishUserEvent(type, u) == Pub("user", type, u, "")
publishChatEvent(type, u, r) == Pub("notification", type, u, r)

ErrorTo(c, text) == Ev({c}, "error", "", "", 0, text, 0)

\* the inbound event a step handles
Op(op, c, u, r) ==
    [op |-> op, conn |-> c, user |-> u, chat |-> r, ids |-> {}, count |-> 0,
     repeat |-> FALSE, prevCount |-> 0, changed |-> FALSE, valid |-> FALSE]

Range(s) == {s[i] : i \in DOMAIN s}

-----------------------------------------------------------------------------
(* Typing announcements delivered to each socket (history) *)

TypingKeys == ChatIds

CountIn(evs, b, ev, u, r) ==
    Cardinality({i \in DOMAIN evs : /\ b \in evs[i].to
                                    /\ evs[i].ev = ev
                                    /\ evs[i].user = u
                                    /\ evs[i].chat = r})

Observe(evs) ==
    [b \in Conns |->
       [k \in TypingKeys \X Users |->
          [typing |-> seen[b][k].typing
                        + CountIn(evs, b, "user_typing", k[2], k[1]),
           stopped |-> seen[b][k].stopped
                        + CountIn(evs, b, "user_stopped_typing", k[2], k[1])]]]

NoFaults == [store |-> FALSE, publish |-> FALSE]

\* publishToService catches a failed publish and logs it: the event is lost
Published(evs) ==
    IF faults.publish THEN SelectSeq(evs, LAMBDA e : e.via = "socket") ELSE evs

\* a step that emits evs
Emits(evs) ==
    /\ out' = Published(evs)
    /\ seen' = Observe(evs)

-----------------------------------------------------------------------------
(* Redis keys with a TTL *)

OnlineTtl == 300        \* setUserOnline(userId, socketId, ttl = 300)
OfflineTtl == 600       \* setUserOffline: this.set(key, ..., 600)
ActiveChatTtl == 1800   \* setUserActiveInChat(userId, chatId, ttl = 1800)
TypingTtl == 10         \* setUserTyping(userId, chatId, ttl = 10)

NoPresence == [status |-> "none", socketId |-> 0, lastSeen |-> 0, exp |-> 0]
NoActive == [chatId |-> "", exp |-> 0]

\* redisClient.get(key): the value, or null once the TTL has run out
getUserOnlineStatus(u) ==
    IF now < presence[u].exp THEN presence[u] ELSE NoPresence

IsOnline(u) == getUserOnlineStatus(u).status = "online"

setUserOnline(u, socketId) ==
    [presence EXCEPT ![u] = [status |-> "online", socketId |-> socketId,
                             lastSeen |-> now, exp |-> now + OnlineTtl * 1000]]

setUserOffline(u) ==
    [presence EXCEPT ![u] = [status |-> "offline", socketId |-> 0,
                             lastSeen |-> now, exp |-> now + OfflineTtl * 1000]]

GetActiveChat(u) ==
    IF now < activeChat[u].exp THEN activeChat[u] ELSE NoActive

HasActiveChat(u) == GetActiveChat(u).chatId # ""

setUserActiveInChat(u, r) ==
    [activeChat EXCEPT ![u] = [chatId |-> r, exp |-> now + ActiveChatTtl * 1000]]

\* a faulty variant: the key of every actor active in the chat is deleted
removeUserFromActiveChat_everyone(u, r) ==
    [v \in Users |-> IF GetActiveChat(v).chatId = r THEN NoActive
                     ELSE activeChat[v]]
removeUserFromActiveChat(u, r) ==
    IF GetActiveChat(u).chatId # "" /\ GetActiveChat(u).chatId = r
    THEN [activeChat EXCEPT ![u] = NoActive]
    ELSE activeChat

\* typing[r][u] is the expiry time of typing:<r>:<u>, 0 when the key is absent
IsTyping(r, u) == now < typing[r][u]

setUserTyping(u, r) ==
    [typing EXCEPT ![r][u] = now + TypingTtl * 1000]

removeUserTyping(u, r) ==
    [typing EXCEPT ![r][u] = 0]

\* redisClient.client.keys(`typing:*:${userId}`)
TypingKeysOf(u) == {r \in TypingKeys : IsTyping(r, u)}

getChatTypingUsers(r) == {u \in Users : IsTyping(r, u)}

-----------------------------------------------------------------------------
(* Cached message lists (chatController.getChatMessages, RedisClient) *)

ChatMessagesTtl == 900      \* setChatMessages(chatId, messages, ttl = 900)

\* a Redis key is the sequence of its ':'-separated segments

\* RedisClient.setChatMessages / getChatMessages: `chat_messages:${chatId}`
ChatMessagesKey(id) == <<"chat_messages">> \o id

\* the controller's cacheKey:
\* `chat_messages:${chat_id}:${limit}:${before_message || 'latest'}:${search || 'all'}`
CacheKey(r, limit) == <<"chat_messages", r, limit, "latest", "all">>

\* KEYS pattern*: the keys that begin with the pattern's segments
MatchesPrefix(key, prefix) ==
    /\ Len(key) >= Len(prefix)
    /\ SubSeq(key, 1, Len(prefix)) = prefix

\* keys(`chat_messages:${chatId}*`), then del of the keys found
invalidateChatMessagesCache(r) ==
    {e \in chatMsgCache : ~MatchesPrefix(e.key, <<"chat_messages", r>>)}

\* redisClient.get(key): the entries readable under the key
CachedUnder(key) == {e \in chatMsgCache : e.key = key /\ now < e.exp}

\* the messages of a chat as the store holds them now
StoredMessages(r) == SelectSeq(messages, LAMBDA msg : msg.chat = r)

\* GET /:chat_id/messages: the cached list if there is one, else the stored
\* messages, which are then cached
getChatMessages(r, limit) ==
    LET key == ChatMessagesKey(CacheKey(r, limit))
        hit == CachedUnder(key)
        response == IF hit # {} THEN (CHOOSE e \in hit : TRUE).list
                    ELSE StoredMessages(r)
    IN
    /\ chatMsgCache' =
          IF hit # {} THEN chatMsgCache
          ELSE {e \in chatMsgCache : e.key # key}
               \cup {[key |-> key, chat |-> r, list |-> StoredMessages(r),
                      exp |-> now + ChatMessagesTtl * 1000]}
    /\ lastOp' = [Op("get_chat_messages", 0, NoUser, r) EXCEPT
                    !.valid = (response = StoredMessages(r))]
    /\ Emits(<<>>)
    /\ UNCHANGED <<now, connState, connUser, connInst, connRooms, presence,
                   activeChat, typing, rateKeys, messages, timers, calls,
                   typingOps, rlLog, offlineAt, endedAt, authCache, lastAuth,
                   faults>>

-----------------------------------------------------------------------------
(* io.on('connection') and the disconnect handler *)

ConnectEvents(c, u) ==
    << publishUserEvent("user_online", u),
       Ev(Open \ {c}, "user_online", u, "", 0, "", 0),
       Ev(Open \ {c}, "userOnline", u, "", 0, "", 0) >>

Connect(c, u, i) ==
    /\ connState[c] = "free"
    /\ connState' = [connState EXCEPT ![c] = "open"]
    /\ connUser' = [connUser EXCEPT ![c] = u]
    /\ connInst' = [connInst EXCEPT ![c] = i]
    /\ connRooms' = [connRooms EXCEPT ![c] = {UserRoom(u)}]
    /\ presence' = setUserOnline(u, c)
    /\ lastOp' = Op("connection", c, u, "")
    /\ Emits(ConnectEvents(c, u))
    /\ UNCHANGED <<now, activeChat, typing, rateKeys, messages, chatMsgCache,
                   timers, calls, typingOps, rlLog, offlineAt, endedAt, authCache, lastAuth, faults>>

\* the typing keys of the actor, deleted and announced one by one
RECURSIVE StopTypingEvents(_, _, _)
StopTypingEvents(c, u, keys) ==
    IF keys = {} THEN <<>>
    ELSE LET r == CHOOSE x \in keys : TRUE
         IN <<Ev(InRoom(ChatRoom(r)) \ {c}, "user_stopped_typing", u, r, 0, "", 0)>>
            \o StopTypingEvents(c, u, keys \ {r})

DisconnectEvents(c, u) ==
    <<publishUserEvent("user_offline", u)>>
    \o StopTypingEvents(c, u, TypingKeysOf(u))
    \o << Ev(Open \ {c}, "user_offline", u, "", 0, "", 0),
          Ev(Open \ {c}, "userOffline", u, "", 0, "", 0) >>

\* what the disconnect handler writes to Redis
DisconnectCleanup(u) ==
    /\ presence' = setUserOffline(u)
    /\ typing' = [r \in TypingKeys |->
                    [v \in Users |-> IF v = u /\ IsTyping(r, u) THEN 0
                                     ELSE typing[r][v]]]
    /\ UNCHANGED activeChat

Disconnect(c) ==
    /\ connState[c] = "open"
    /\ connState' = [connState EXCEPT ![c] = "closed"]
    /\ connRooms' = [connRooms EXCEPT ![c] = {}]
    /\ DisconnectCleanup(connUser[c])
    /\ lastOp' = Op("disconnect", c, connUser[c], "")
    /\ Emits(DisconnectEvents(c, connUser[c]))
    /\ offlineAt' = [offlineAt EXCEPT ![connUser[c]] = now]
    /\ endedAt' = [endedAt EXCEPT ![c] = now]
    /\ UNCHANGED <<now, connUser, connInst, rateKeys, messages, chatMsgCache,
                   timers, calls, typingOps, rlLog, authCache, lastAuth, faults>>

-----------------------------------------------------------------------------
(* allowRequest: the token of a connection request (app.js, frappeService) *)

CacheTtlMs == 60000     \* FRAPPE_AUTH_CACHE_TTL_MS || '60000'

NoToken == ""
Tokens == {NoToken, "tokenA", "tokenB", "forged"}
\* the answers of the identity provider to get_logged_user
Verdicts == {"ok", "rejected", "unreachable"}

\* the user a token was issued to
TokenUser(token) ==
    IF token = "tokenA" THEN "A" ELSE IF token = "tokenB" THEN "B" ELSE NoUser

\* frappeService._getCachedUser(token)
IsCached(token) == now < authCache[token]

\* frappeService.authenticateUser(token): the cached user, else the provider's
\* answer; anything but a user is thrown
authenticateUser(token, verdict) ==
    IF IsCached(token) THEN "ok"
    ELSE IF verdict = "ok" THEN "ok"
    ELSE "throws"

\* a faulty variant: a request without token is let in
allowRequest_lax(token, verdict) == "ok"
\* the callback of allowRequest: "ok" for callback(null, true)
allowRequest(token, verdict) ==
    IF token = NoToken THEN "unauthorized"
    ELSE IF authenticateUser(token, verdict) = "ok" THEN "ok"
    ELSE "authentication_failed"

NoAuth == [conn |-> 0, token |-> NoToken, cached |-> FALSE, verdict |-> "rejected",
           outcome |-> "none"]

\* a connection request, and on admission the connection handler
Handshake(c, token, verdict, i) ==
    /\ connState[c] = "free"
    /\ (verdict = "ok") => TokenUser(token) # NoUser
    /\ lastAuth' = [conn |-> c, token |-> token, cached |-> IsCached(token),
                    verdict |-> verdict, outcome |-> allowRequest(token, verdict)]
    /\ authCache' = IF token # NoToken /\ ~IsCached(token) /\ verdict = "ok"
                    THEN [authCache EXCEPT ![token] = now + CacheTtlMs]
                    ELSE authCache
    /\ IF allowRequest(token, verdict) = "ok" THEN
          /\ connState' = [connState EXCEPT ![c] = "open"]
          /\ connUser' = [connUser EXCEPT ![c] = TokenUser(token)]
          /\ connInst' = [connInst EXCEPT ![c] = i]
          /\ connRooms' = [connRooms EXCEPT ![c] = {UserRoom(TokenUser(token))}]
          /\ presence' = setUserOnline(TokenUser(token), c)
          /\ lastOp' = [Op("connection", c, TokenUser(token), "") EXCEPT
                          !.changed = TRUE]
          /\ Emits(ConnectEvents(c, TokenUser(token)))
       ELSE
          /\ lastOp' = Op("connection_refused", c, NoUser, "")
          /\ Emits(<<>>)
          /\ UNCHANGED <<connState, connUser, connInst, connRooms, presence>>
    /\ UNCHANGED <<now, activeChat, typing, rateKeys, messages, chatMsgCache,
                   timers, calls, typingOps, rlLog, offlineAt, endedAt, faults>>

\* allowRequest stores the verified user in req.user; the connection handler
\* reads socket.user, which nothing assigns
reqUser(token) == TokenUser(token)
socketUser(token) == NoUser

\* a connection request, and on admission the connection handler as written:
\* userId = socket.user?.id || socket.user?._id is undefined, so the
\* `if (userId)` block (user room, setUserOnline, publish, broadcast) is skipped
connection(c, token, verdict, i) ==
    /\ connState[c] = "free"
    /\ (verdict = "ok") => reqUser(token) # NoUser
    /\ lastAuth' = [conn |-> c, token |-> token, cached |-> IsCached(token),
                    verdict |-> verdict, outcome |-> allowRequest(token, verdict)]
    /\ authCache' = IF token # NoToken /\ ~IsCached(token) /\ verdict = "ok"
                    THEN [authCache EXCEPT ![token] = now + CacheTtlMs]
                    ELSE authCache
    /\ IF allowRequest(token, verdict) = "ok" THEN
          /\ connState' = [connState EXCEPT ![c] = "open"]
          /\ connUser' = [connUser EXCEPT ![c] = socketUser(token)]
          /\ connInst' = [connInst EXCEPT ![c] = i]
          /\ lastOp' = Op("connection", c, socketUser(token), "")
       ELSE
          /\ lastOp' = Op("connection_refused", c, NoUser, "")
          /\ UNCHANGED <<connState, connUser, connInst>>
    /\ Emits(<<>>)
    /\ UNCHANGED <<now, connRooms, presence, activeChat, typing, rateKeys,
                   messages, chatMsgCache, timers, calls, typingOps, rlLog,
                   offlineAt, endedAt, faults>>

\* the disconnect handler of such a socket: `if (userId)` skips all of it
disconnectUnbound(c) ==
    /\ connState[c] = "open"
    /\ connUser[c] = NoUser
    /\ connState' = [connState EXCEPT ![c] = "closed"]
    /\ endedAt' = [endedAt EXCEPT ![c] = now]
    /\ lastOp' = Op("disconnect", c, NoUser, "")
    /\ Emits(<<>>)
    /\ UNCHANGED <<now, connUser, connInst, connRooms, presence, activeChat,
                   typing, rateKeys, messages, chatMsgCache, timers, calls,
                   typingOps, rlLog, offlineAt, authCache, lastAuth, faults>>

-----------------------------------------------------------------------------
(* join_chat / joinChat and leave_chat *)

\* a faulty variant: the participant check always passes
JoinAllowed_anyone(u, r) == u \in Users
\* chat.participants.some(p => p._id.toString() === userId.toString())
JoinAllowed(u, r) == u \in Participants(r)

JoinOutcome(u, r) ==
    IF r = NoChatId THEN "Chat ID is required"
    ELSE IF ~ChatExists(r) THEN "Chat not found"
    ELSE IF JoinAllowed(u, r) THEN "chat_joined"
    ELSE "No access to this chat"

handleJoinChat(c, r) ==
    LET u == connUser[c] IN
    /\ connState[c] = "open"
    /\ IF JoinOutcome(u, r) = "chat_joined" THEN
          /\ connRooms' = [connRooms EXCEPT ![c] = @ \cup {ChatRoom(r), PlainRoom(r)}]
          /\ activeChat' = setUserActiveInChat(u, r)
          /\ Emits(<<Ev({c}, "chat_joined", "", r, 0, "", Cardinality(Participants(r)))>>)
       ELSE
          /\ Emits(<<ErrorTo(c, JoinOutcome(u, r))>>)
          /\ UNCHANGED <<connRooms, activeChat>>
    /\ lastOp' = Op("join_chat", c, u, r)
    /\ UNCHANGED <<now, connState, connUser, connInst, presence, typing,
                   rateKeys, messages, chatMsgCache, timers, calls, typingOps,
                   rlLog, offlineAt, endedAt, authCache, lastAuth, faults>>

\* groupNs 'joinGroupChat': the namespace socket of the connection joins the
\* room named by the chat id
joinGroupChat(c, r) ==
    /\ connState[c] = "open"
    /\ r # NoChatId
    /\ connRooms' = [connRooms EXCEPT ![c] = @ \cup {GroupRoom(r)}]
    /\ lastOp' = Op("joinGroupChat", c, connUser[c], r)
    /\ Emits(<<Ev({c}, "roomJoinConfirmed", "", r, 0, "",
                  Cardinality(InRoom(GroupRoom(r)) \cup {c}))>>)
    /\ UNCHANGED <<now, connState, connUser, connInst, presence, activeChat,
                   typing, rateKeys, messages, chatMsgCache, timers, calls,
                   typingOps, rlLog, offlineAt, endedAt, authCache, lastAuth,
                   faults>>

\* groupNs 'groupTyping': the actor named in the announcement is the userId
\* field of the payload
groupTyping(c, r, typingUserId, isTyping) ==
    /\ connState[c] = "open"
    /\ r # NoChatId
    /\ typingUserId # NoUser
    /\ lastOp' = Op("groupTyping", c, connUser[c], r)
    /\ Emits(<<Ev(InRoom(GroupRoom(r)),
                  IF isTyping THEN "userTypingInGroup" ELSE "userStopTypingInGroup",
                  typingUserId, r, 0, "", 0)>>)
    /\ UNCHANGED <<now, connState, connUser, connInst, connRooms, presence,
                   activeChat, typing, rateKeys, messages, chatMsgCache, timers,
                   calls, typingOps, rlLog, offlineAt, endedAt, authCache,
                   lastAuth, faults>>

LeaveChat(c, r) ==
    LET u == connUser[c] IN
    /\ connState[c] = "open"
    /\ connRooms' = [connRooms EXCEPT ![c] = @ \ {ChatRoom(r), PlainRoom(r)}]
    /\ activeChat' = removeUserFromActiveChat(u, r)
    /\ typing' = removeUserTyping(u, r)
    /\ lastOp' = Op("leave_chat", c, u, r)
    /\ Emits(<<Ev({c}, "chat_left", "", r, 0, "", 0)>>)
    /\ UNCHANGED <<now, connState, connUser, connInst, presence, rateKeys,
                   messages, chatMsgCache, timers, calls, typingOps, rlLog,
                   offlineAt, endedAt, authCache, lastAuth, faults>>

-----------------------------------------------------------------------------
(* typing_start / typing and typing_stop *)

getTypingTimeout == 3000    \* utils/chatHelpers.js: return 3000

TypingEvents(c, u, r) ==
    << Ev(InRoom(ChatRoom(r)) \ {c}, "user_typing", u, r, 0, "", 0),
       Ev(InRoom(PlainRoom(r)) \ {c}, "userTyping", u, r, 0, "", 0),
       Ev(InRoom(GroupRoom(r)), "userTypingInGroup", u, r, 0, "", 0) >>

StoppedEvents(c, u, r) ==
    << Ev(InRoom(ChatRoom(r)) \ {c}, "user_stopped_typing", u, r, 0, "", 0),
       Ev(InRoom(PlainRoom(r)) \ {c}, "userStopTyping", u, r, 0, "", 0),
       Ev(InRoom(GroupRoom(r)), "userStopTypingInGroup", u, r, 0, "", 0) >>

\* a faulty variant: the callback removes the marker and announces nothing
TimeoutEvents_silent(c, u, r) == <<>>
\* what the setTimeout callback of handleTypingStart emits
TimeoutEvents(c, u, r) == StoppedEvents(c, u, r)

TypingOp(op) == [op |-> op, at |-> now]

handleTypingStart(c, r) ==
    LET u == connUser[c] IN
    /\ connState[c] = "open"
    /\ Len(typingOps[c]) < MaxTypingOps
    /\ typing' = setUserTyping(u, r)
    /\ timers' = Append(timers, [conn |-> c, user |-> u, chat |-> r,
                                 due |-> now + getTypingTimeout])
    /\ typingOps' = [typingOps EXCEPT ![c] = Append(@, TypingOp("typing_start"))]
    /\ lastOp' = Op("typing_start", c, u, r)
    /\ Emits(TypingEvents(c, u, r))
    /\ UNCHANGED <<now, connState, connUser, connInst, connRooms, presence,
                   activeChat, rateKeys, messages, chatMsgCache, calls, rlLog,
                   offlineAt, endedAt, authCache, lastAuth, faults>>

TypingStop(c, r) ==
    LET u == connUser[c] IN
    /\ connState[c] = "open"
    /\ Len(typingOps[c]) < MaxTypingOps
    /\ typing' = removeUserTyping(u, r)
    /\ typingOps' = [typingOps EXCEPT ![c] = Append(@, TypingOp("typing_stop"))]
    /\ lastOp' = Op("typing_stop", c, u, r)
    /\ Emits(StoppedEvents(c, u, r))
    /\ UNCHANGED <<now, connState, connUser, connInst, connRooms, presence,
                   activeChat, rateKeys, messages, chatMsgCache, timers, calls,
                   rlLog, offlineAt, endedAt, authCache, lastAuth, faults>>

\* socket.on('stopTyping'): the announcement alone, the store is not touched
stopTyping(c, r) ==
    LET u == connUser[c] IN
    /\ connState[c] = "open"
    /\ Len(typingOps[c]) < MaxTypingOps
    /\ typingOps' = [typingOps EXCEPT ![c] = Append(@, TypingOp("stopTyping"))]
    /\ lastOp' = Op("stopTyping", c, u, r)
    /\ Emits(StoppedEvents(c, u, r))
    /\ UNCHANGED <<now, connState, connUser, connInst, connRooms, presence,
                   activeChat, typing, rateKeys, messages, chatMsgCache, timers,
                   calls, rlLog, offlineAt, endedAt, authCache, lastAuth, faults>>

\* the oldest pending setTimeout callback runs once its delay has passed
TimerFire ==
    /\ timers # <<>>
    /\ Head(timers).due <= now
    /\ LET t == Head(timers) IN
         /\ typing' = removeUserTyping(t.user, t.chat)
         /\ lastOp' = Op("typing_timeout", t.conn, t.user, t.chat)
         /\ Emits(TimeoutEvents(t.conn, t.user, t.chat))
    /\ timers' = Tail(timers)
    /\ UNCHANGED <<now, connState, connUser, connInst, connRooms, presence,
                   activeChat, rateKeys, messages, chatMsgCache, calls,
                   typingOps, rlLog, offlineAt, endedAt, authCache, lastAuth, faults>>

\* the clock advances; a callback that is due runs before the clock passes it
Tick(step) ==
    /\ now + step <= MaxTicks * step
    /\ \A i \in DOMAIN timers : timers[i].due >= now + step
    /\ now' = now + step
    /\ lastOp' = Op("tick", 0, NoUser, "")
    /\ Emits(<<>>)
    /\ UNCHANGED <<connState, connUser, connInst, connRooms, presence,
                   activeChat, typing, rateKeys, messages, chatMsgCache, timers,
                   calls, typingOps, rlLog, offlineAt, endedAt, authCache, lastAuth, faults>>

-----------------------------------------------------------------------------
(* checkRateLimit (utils/chatHelpers.js) *)

MessageLimit == 30      \* checkRateLimit(userId, 'message', 30, 60)
WindowSeconds == 60

NoRate == [list |-> <<>>, exp |-> 0]
NoCall == [pc |-> "idle", user |-> "", t |-> 0, actions |-> <<>>]
Callers == {1, 2}

\* await redisClient.get(key) || []
GetActions(u) == IF now < rateKeys[u].exp THEN rateKeys[u].list ELSE <<>>

\* a faulty variant: a timestamp on the edge of the window still counts
InWindow_inclusive(timestamp, windowStart) == timestamp >= windowStart
InWindow(timestamp, windowStart) == timestamp > windowStart

RecentActions(actions, t, windowSeconds) ==
    SelectSeq(actions, LAMBDA ts : InWindow(ts, t - windowSeconds * 1000))

\* a faulty variant: the comparison is off by one
OverLimit_late(recentActions, maxActions) == Len(recentActions) > maxActions
OverLimit(recentActions, maxActions) == Len(recentActions) >= maxActions

\* the decision of a call that started at time t and read `actions`
checkRateLimit(actions, t, maxActions, windowSeconds) ==
    LET recentActions == RecentActions(actions, t, windowSeconds) IN
    IF OverLimit(recentActions, maxActions)
    THEN [allowed |-> FALSE, remaining |-> 0,
          resetTime |-> recentActions[1] + windowSeconds * 1000,
          write |-> <<>>]
    ELSE [allowed |-> TRUE,
          remaining |-> maxActions - (Len(recentActions) + 1),
          resetTime |-> t + windowSeconds * 1000,
          write |-> Append(recentActions, t)]

\* redisClient.set(key, recentActions, windowSeconds), only on admission
RateWrite(u, d, windowSeconds) ==
    IF d.allowed
    THEN [rateKeys EXCEPT ![u] = [list |-> d.write,
                                  exp |-> now + windowSeconds * 1000]]
    ELSE rateKeys


\* a caller enters checkRateLimit: Date.now() and the awaited redisClient.get
RateBegin(p, u) ==
    /\ calls[p].pc = "idle"
    /\ Len(rlLog) + Cardinality({q \in Callers : calls[q].pc # "idle"}) < Limit + 2
    /\ calls' = [calls EXCEPT ![p] = [pc |-> "got", user |-> u, t |-> now,
                                      actions |-> GetActions(u)]]
    /\ lastOp' = Op("rate_get", p, u, "")
    /\ Emits(<<>>)
    /\ UNCHANGED <<now, connState, connUser, connInst, connRooms, presence,
                   activeChat, typing, rateKeys, messages, chatMsgCache, timers,
                   typingOps, rlLog, offlineAt, endedAt, authCache, lastAuth, faults>>

\* the caller resumes: filter, decide, and on admission the awaited set
RateFinish(p) ==
    LET u == calls[p].user
        d == checkRateLimit(calls[p].actions, calls[p].t, Limit, WindowSeconds)
    IN
    /\ calls[p].pc = "got"
    /\ rateKeys' = RateWrite(u, d, WindowSeconds)
    /\ rlLog' = Append(rlLog, [user |-> u, t |-> calls[p].t,
                               allowed |-> d.allowed,
                               remaining |-> d.remaining,
                               resetTime |-> d.resetTime])
    /\ calls' = [calls EXCEPT ![p] = NoCall]
    /\ lastOp' = Op("rate_set", p, u, "")
    /\ Emits(<<>>)
    /\ UNCHANGED <<now, connState, connUser, connInst, connRooms, presence,
                   activeChat, typing, messages, chatMsgCache, timers,
                   typingOps, offlineAt, endedAt, authCache, lastAuth, faults>>

-----------------------------------------------------------------------------
(* send_message *)

Space == " "
\* the (message, messageType) payloads the clients send
SendInputs == { << <<"h", "i">>, "text" >>,
                << <<Space, "h", "i", Space>>, "text" >>,
                << <<Space>>, "text" >>,
                << <<Space>>, "image" >> }

\* String.prototype.trim
RECURSIVE TrimLeft(_)
TrimLeft(s) == IF s # <<>> /\ Head(s) = Space THEN TrimLeft(Tail(s)) ELSE s
RECURSIVE TrimRight(_)
TrimRight(s) ==
    IF s # <<>> /\ s[Len(s)] = Space THEN TrimRight(SubSeq(s, 1, Len(s) - 1))
    ELSE s
Trim(s) == TrimRight(TrimLeft(s))

\* new Message({...}) followed by save(): the pre-save hook adds the sender
NewMessage(r, u, content, type) ==
    [chat |-> r, sender |-> u, content |-> content, messageType |-> type,
     readBy |-> <<u>>, deliveryStatus |-> "sent", sentAt |-> now]

MsgIds == 1 .. Len(messages)

RECURSIVE SumLen(_)
SumLen(S) ==
    IF S = {} THEN 0
    ELSE LET u == CHOOSE x \in S : TRUE
         IN Len(rateKeys[u].list) + SumLen(S \ {u})

\* send_message events handled so far by actors whose window is still open
SendAttempts == SumLen(Users)

\* a faulty variant: the acknowledgement leaves before the broadcast
SendEvents_ackFirst(c, u, r, m, content) ==
    << publishChatEvent("message_sent", u, r),
       Ev({c}, "message_sent", "", "", m, "", 0),
       MessageEv(InRoom(ChatRoom(r)), "new_message", u, r, m, content),
       MessageEv(InRoom(PlainRoom(r)), "receiveMessage", u, r, m, content),
       MessageEv(InRoom(GroupRoom(r)), "receiveMessage", u, r, m, content),
       Ev(InRoom(ChatRoom(r)) \ {c}, "user_stopped_typing", u, r, 0, "", 0) >>
\* what a persisted message publishes and emits, in program order
SendEvents(c, u, r, m, content) ==
    << publishChatEvent("message_sent", u, r),
       MessageEv(InRoom(ChatRoom(r)), "new_message", u, r, m, content),
       MessageEv(InRoom(PlainRoom(r)), "receiveMessage", u, r, m, content),
       MessageEv(InRoom(GroupRoom(r)), "receiveMessage", u, r, m, content),
       Ev({c}, "message_sent", "", "", m, "", 0),
       Ev(InRoom(ChatRoom(r)) \ {c}, "user_stopped_typing", u, r, 0, "", 0) >>

SendOutcome(u, r, content, type, d) ==
    IF ~d.allowed THEN "rate_limit_exceeded"
    ELSE IF r = NoChatId THEN "Chat ID is required"
    ELSE IF ~ChatExists(r) THEN "Chat not found"
    ELSE IF u \notin Participants(r) THEN "No access to this chat"
    ELSE IF Trim(content) = <<>> /\ type = "text" THEN "Message cannot be empty"
    ELSE IF Trim(content) = <<>> THEN "Failed to send message"
    ELSE "sent"

\* a send_message that passes every validation of the handler
ValidSend(u, r, content) ==
    /\ ChatExists(r)
    /\ u \in Participants(r)
    /\ Trim(content) # <<>>

SendMessage(c, r, content, type) ==
    LET u == connUser[c]
        d == checkRateLimit(GetActions(u), now, MessageLimit, WindowSeconds)
        outcome == SendOutcome(u, r, content, type, d)
        m == Len(messages) + 1
    IN
    /\ connState[c] = "open"
    /\ SendAttempts < MaxMsgs
    /\ rateKeys' = RateWrite(u, d, WindowSeconds)
    /\ IF outcome = "sent" THEN
          /\ messages' = Append(messages, NewMessage(r, u, Trim(content), type))
          /\ chatMsgCache' = invalidateChatMessagesCache(r)
          /\ typing' = removeUserTyping(u, r)
          /\ Emits(SendEvents(c, u, r, m, Trim(content)))
       ELSE IF outcome = "rate_limit_exceeded" THEN
          /\ Emits(<<Ev({c}, "rate_limit_exceeded", "", "", 0, "", d.resetTime)>>)
          /\ UNCHANGED <<messages, chatMsgCache, typing>>
       ELSE
          /\ Emits(<<ErrorTo(c, outcome)>>)
          /\ UNCHANGED <<messages, chatMsgCache, typing>>
    /\ lastOp' = [Op("send_message", c, u, r) EXCEPT
                    !.count = IF outcome = "sent" THEN m ELSE 0,
                    !.valid = ValidSend(u, r, content)]
    /\ UNCHANGED <<now, connState, connUser, connInst, connRooms, presence,
                   activeChat, timers, calls, typingOps, rlLog, offlineAt, endedAt, authCache, lastAuth, faults>>

\* send_message as the steps its awaits cut it into. Handler p has received
\* the event on socket c and is suspended on checkRateLimit: calls[p] keeps
\* the actor, the position of the event among those received (t) and the
\* socket, the chat and the message once created (actions)
Pending == {q \in Callers : calls[q].pc # "idle"}

SendReceive(p, c, r) ==
    LET u == connUser[c]
        d == checkRateLimit(GetActions(u), now, MessageLimit, WindowSeconds)
    IN
    /\ calls[p].pc = "idle"
    /\ connState[c] = "open"
    /\ ValidSend(u, r, <<"h", "i">>)
    /\ d.allowed
    /\ Len(messages) + Cardinality(Pending) < MaxMsgs + 1
    /\ rateKeys' = RateWrite(u, d, WindowSeconds)
    /\ calls' = [calls EXCEPT ![p] =
                   [pc |-> "received", user |-> u,
                    t |-> Len(messages) + Cardinality(Pending) + 1,
                    actions |-> <<[conn |-> c, chat |-> r, msg |-> 0]>>]]
    /\ lastOp' = Op("send_receive", c, u, r)
    /\ Emits(<<>>)
    /\ UNCHANGED <<now, connState, connUser, connInst, connRooms, presence,
                   activeChat, typing, messages, chatMsgCache, timers,
                   typingOps, rlLog, offlineAt, endedAt, authCache, lastAuth,
                   faults>>

\* Chat.findById has answered: new Message({..., sentAt: new Date()}), save()
SendCreate(p) ==
    LET call == calls[p].actions[1]
    IN
    /\ calls[p].pc = "received"
    /\ messages' = Append(messages,
                          NewMessage(call.chat, calls[p].user, <<"h", "i">>, "text"))
    /\ calls' = [calls EXCEPT ![p].pc = "saved",
                              ![p].actions = <<[call EXCEPT !.msg = Len(messages) + 1]>>]
    /\ lastOp' = Op("send_create", call.conn, calls[p].user, call.chat)
    /\ Emits(<<>>)
    /\ UNCHANGED <<now, connState, connUser, connInst, connRooms, presence,
                   activeChat, typing, rateKeys, chatMsgCache, timers,
                   typingOps, rlLog, offlineAt, endedAt, authCache, lastAuth,
                   faults>>

\* chat.save, the cache calls and the publish have answered: the emits
SendBroadcast(p) ==
    LET call == calls[p].actions[1]
        u == calls[p].user
    IN
    /\ calls[p].pc = "saved"
    /\ chatMsgCache' = invalidateChatMessagesCache(call.chat)
    /\ typing' = removeUserTyping(u, call.chat)
    /\ calls' = [calls EXCEPT ![p] = NoCall]
    /\ lastOp' = [Op("send_message", call.conn, u, call.chat) EXCEPT
                    !.count = call.msg, !.valid = TRUE]
    /\ Emits(SendEvents(call.conn, u, call.chat, call.msg, <<"h", "i">>))
    /\ UNCHANGED <<now, connState, connUser, connInst, connRooms, presence,
                   activeChat, rateKeys, messages, timers, typingOps, rlLog,
                   offlineAt, endedAt, authCache, lastAuth, faults>>

-----------------------------------------------------------------------------
(* mark_messages_read / messageRead *)

HasRead(m, u) == u \in Range(messages[m].readBy)

\* a faulty variant: the status is left as it was
Acknowledge_statusKept(msg, u) ==
    [msg EXCEPT !.readBy = Append(@, u)]
\* message.readBy.push({user, readAt}); message.deliveryStatus = 'read'; save()
Acknowledge(msg, u) ==
    [msg EXCEPT !.readBy = Append(@, u), !.deliveryStatus = "read"]

\* a faulty variant: the readBy test is missing
ToAcknowledge_again(u, r, ids) ==
    IF ids # {}
    THEN ids \cap MsgIds
    ELSE {m \in MsgIds : messages[m].chat = r /\ messages[m].sender # u}
\* a faulty variant: the chat filter of the query is missing
ToAcknowledge_anyChat(u, r, ids) ==
    IF ids # {}
    THEN {m \in ids \cap MsgIds : ~HasRead(m, u)}
    ELSE {m \in MsgIds : messages[m].sender # u /\ ~HasRead(m, u)}
\* the messages a call acknowledges: the given ids that exist and lack the
\* actor in readBy, or with no ids the unread messages of the chat
ToAcknowledge(u, r, ids) ==
    IF ids # {}
    THEN {m \in ids \cap MsgIds : ~HasRead(m, u)}
    ELSE {m \in MsgIds : /\ messages[m].chat = r
                         /\ messages[m].sender # u
                         /\ ~HasRead(m, u)}

ReadEvents(c, u, r, ids, n) ==
    << publishChatEvent("messages_read", u, r),
       ReadEv(InRoom(ChatRoom(r)) \ {c}, "messages_read", u, r, ids, n),
       ReadEv(InRoom(PlainRoom(r)) \ {c}, "messageRead", u, r, ids, n) >>

\* the messageIds payloads the clients send; 0 is an id no message has
MarkInputs == {{}} \cup {{m} : m \in 0 .. MaxMsgs} \cup {1 .. MaxMsgs}

\* the step before was the same call: same socket, chat and ids
SameCall(c, r, ids) ==
    /\ lastOp.op = "mark_messages_read"
    /\ lastOp.conn = c
    /\ lastOp.chat = r
    /\ lastOp.ids = ids

handleMarkRead(c, r, ids) ==
    LET u == connUser[c]
        todo == ToAcknowledge(u, r, ids)
        updatedCount == Cardinality(todo)
    IN
    /\ connState[c] = "open"
    /\ r # NoChatId
    /\ messages' = [m \in MsgIds |->
                      IF m \in todo THEN Acknowledge(messages[m], u)
                      ELSE messages[m]]
    /\ IF updatedCount > 0 THEN
          /\ chatMsgCache' = invalidateChatMessagesCache(r)
          /\ Emits(ReadEvents(c, u, r, ids, updatedCount))
       ELSE
          /\ Emits(<<>>)
          /\ UNCHANGED chatMsgCache
    /\ lastOp' = [Op("mark_messages_read", c, u, r) EXCEPT
                    !.ids = ids, !.count = updatedCount,
                    !.repeat = SameCall(c, r, ids),
                    !.prevCount = IF SameCall(c, r, ids) THEN lastOp.count ELSE 0,
                    !.changed = (messages' # messages)]
    /\ UNCHANGED <<now, connState, connUser, connInst, connRooms, presence,
                   activeChat, typing, rateKeys, timers, calls, typingOps,
                   rlLog, offlineAt, endedAt, authCache, lastAuth, faults>>

\* handleMarkRead with one message id, as the two steps its awaits cut it
\* into. Handler p of socket c is suspended on Message.findById(m): calls[p]
\* keeps the actor, the message id (t) and the readBy it was handed (actions)
MarkReadFind(p, c, m) ==
    /\ calls[p].pc = "idle"
    /\ connState[c] = "open"
    /\ m \in MsgIds
    /\ calls' = [calls EXCEPT ![p] = [pc |-> "found", user |-> connUser[c],
                                      t |-> m, actions |-> messages[m].readBy]]
    /\ lastOp' = [Op("mark_find", c, connUser[c], messages[m].chat) EXCEPT
                    !.ids = {m}]
    /\ Emits(<<>>)
    /\ UNCHANGED <<now, connState, connUser, connInst, connRooms, presence,
                   activeChat, typing, rateKeys, messages, chatMsgCache, timers,
                   typingOps, rlLog, offlineAt, endedAt, authCache, lastAuth,
                   faults>>

\* the handler resumes: the readBy test on the document it holds, then
\* message.save(), which sends the pushed entry as a $push and the status as
\* a $set, and the announcement
MarkReadSave(p) ==
    LET u == calls[p].user
        m == calls[p].t
        r == messages[m].chat
        c == CHOOSE d \in Conns : connUser[d] = u
        updatedCount == IF u \in Range(calls[p].actions) THEN 0 ELSE 1
    IN
    /\ calls[p].pc = "found"
    /\ IF updatedCount > 0 THEN
          /\ messages' = [messages EXCEPT ![m] = Acknowledge(@, u)]
          /\ chatMsgCache' = invalidateChatMessagesCache(r)
          /\ Emits(ReadEvents(c, u, r, {m}, updatedCount))
       ELSE
          /\ Emits(<<>>)
          /\ UNCHANGED <<messages, chatMsgCache>>
    /\ calls' = [calls EXCEPT ![p] = NoCall]
    /\ lastOp' = [Op("mark_messages_read", c, u, r) EXCEPT
                    !.ids = {m}, !.count = updatedCount,
                    !.changed = (messages' # messages)]
    /\ UNCHANGED <<now, connState, connUser, connInst, connRooms, presence,
                   activeChat, typing, rateKeys, timers, typingOps, rlLog,
                   offlineAt, endedAt, authCache, lastAuth, faults>>

\* the SQL variant of the gateway: SELECT ... WHERE chat = ? AND
\* JSON_SEARCH(read_by, 'one', userId) IS NULL, with no test of the sender
unreadMessages(u, r) ==
    {m \in MsgIds : messages[m].chat = r /\ ~HasRead(m, u)}

\* socket.on('mark_messages_read') of the SQL variant
mark_messages_read(c, r, ids) ==
    LET u == connUser[c]
        todo == IF ids # {}
                THEN {m \in ids \cap MsgIds : ~HasRead(m, u)}
                ELSE unreadMessages(u, r)
        updatedCount == Cardinality(todo)
    IN
    /\ connState[c] = "open"
    /\ r # NoChatId
    /\ messages' = [m \in MsgIds |->
                      IF m \in todo THEN Acknowledge(messages[m], u)
                      ELSE messages[m]]
    /\ IF updatedCount > 0 THEN
          /\ chatMsgCache' = invalidateChatMessagesCache(r)
          /\ Emits(<<ReadEv(InRoom(ChatRoom(r)) \ {c}, "messages_read",
                            u, r, ids, updatedCount)>>)
       ELSE
          /\ Emits(<<>>)
          /\ UNCHANGED chatMsgCache
    /\ lastOp' = [Op("mark_messages_read", c, u, r) EXCEPT
                    !.ids = ids, !.count = updatedCount,
                    !.changed = (messages' # messages)]
    /\ UNCHANGED <<now, connState, connUser, connInst, connRooms, presence,
                   activeChat, typing, rateKeys, timers, calls, typingOps,
                   rlLog, offlineAt, endedAt, authCache, lastAuth, faults>>

\* POST /:chat_id/read of chatController: the count is computed, then the
\* cache invalidation and the publish run whatever the count is; the socket
\* emit is skipped because the express app carries no 'io' setting
markMessagesRead(u, r, ids) ==
    LET todo == ToAcknowledge(u, r, ids)
        updatedCount == Cardinality(todo)
    IN
    /\ messages' = [m \in MsgIds |->
                      IF m \in todo THEN Acknowledge(messages[m], u)
                      ELSE messages[m]]
    /\ chatMsgCache' = invalidateChatMessagesCache(r)
    /\ Emits(<< [publishChatEvent("messages_read", u, r) EXCEPT
                   !.ids = ids, !.count = updatedCount] >>)
    /\ lastOp' = [Op("rest_mark_messages_read", 0, u, r) EXCEPT
                    !.ids = ids, !.count = updatedCount,
                    !.changed = (messages' # messages)]
    /\ UNCHANGED <<now, connState, connUser, connInst, connRooms, presence,
                   activeChat, typing, rateKeys, timers, calls, typingOps,
                   rlLog, offlineAt, endedAt, authCache, lastAuth, faults>>

-----------------------------------------------------------------------------
(* The gateway: connections, rooms, messages and read receipts *)

Init ==
    /\ now = 0
    /\ connState = [c \in Conns |-> "free"]
    /\ connUser = [c \in Conns |-> NoUser]
    /\ connInst = [c \in Conns |-> 0]
    /\ connRooms = [c \in Conns |-> {}]
    /\ presence = [u \in Users |-> NoPresence]
    /\ activeChat = [u \in Users |-> NoActive]
    /\ typing = [r \in TypingKeys |-> [u \in Users |-> 0]]
    /\ rateKeys = [u \in Users |-> NoRate]
    /\ messages = <<>>
    /\ chatMsgCache = {}
    /\ timers = <<>>
    /\ calls = [p \in Callers |-> NoCall]
    /\ lastOp = Op("none", 0, NoUser, "")
    /\ out = <<>>
    /\ seen = [b \in Conns |-> [k \in TypingKeys \X Users |->
                                  [typing |-> 0, stopped |-> 0]]]
    /\ typingOps = [b \in Conns |-> <<>>]
    /\ rlLog = <<>>
    /\ offlineAt = [u \in Users |-> -1]
    /\ endedAt = [c \in Conns |-> -1]
    /\ authCache = [token \in Tokens |-> 0]
    /\ lastAuth = NoAuth
    /\ faults = NoFaults

\* socket 1 is A's and is held by instance 1; sockets 2 and 3 are B's and C's
\* and are held by instance 2
SocketUser(c) == IF c = 1 THEN "A" ELSE IF c = 2 THEN "B" ELSE "C"
SocketInstance(c) == IF c = 1 THEN 1 ELSE 2

ChatInputs == ChatIds \cup {MissingChat, NoChatId}

Next ==
    \/ \E c \in Conns : Connect(c, SocketUser(c), SocketInstance(c))
    \/ \E c \in Conns : Disconnect(c)
    \/ \E c \in Conns, r \in ChatInputs : handleJoinChat(c, r)
    \/ \E c \in Conns, r \in ChatIds : LeaveChat(c, r)
    \/ \E c \in Conns, r \in ChatInputs, in \in SendInputs :
          SendMessage(c, r, in[1], in[2])

Spec == Init /\ [][Next]_vars

-----------------------------------------------------------------------------
(* Messages and read receipts between joined sockets *)

NextRead ==
    \/ \E c \in Conns : Connect(c, SocketUser(c), SocketInstance(c))
    \/ \E c \in Conns, r \in ChatIds : handleJoinChat(c, r)
    \/ \E c \in Conns, r \in ChatIds, in \in SendInputs :
          SendMessage(c, r, in[1], in[2])
    \/ \E c \in Conns, r \in ChatIds, ids \in MarkInputs : handleMarkRead(c, r, ids)

SpecRead == Init /\ [][NextRead]_vars

-----------------------------------------------------------------------------
(* Typing between two joined members *)

\* A and B have connected and joined R: the state after Connect(1),
\* Connect(2), handleJoinChat(1, "R"), handleJoinChat(2, "R")
Members == {1, 2}

Joined ==
    /\ now = 0
    /\ connState = [c \in Conns |-> IF c \in Members THEN "open" ELSE "free"]
    /\ connUser = [c \in Conns |-> IF c \in Members THEN SocketUser(c) ELSE NoUser]
    /\ connInst = [c \in Conns |-> IF c \in Members THEN SocketInstance(c) ELSE 0]
    /\ connRooms = [c \in Conns |->
                      IF c \in Members
                      THEN {UserRoom(SocketUser(c)), ChatRoom("R"), PlainRoom("R")}
                      ELSE {}]
    /\ presence = [u \in Users |->
                     IF \E c \in Members : SocketUser(c) = u
                     THEN [status |-> "online",
                           socketId |-> CHOOSE c \in Members : SocketUser(c) = u,
                           lastSeen |-> 0, exp |-> OnlineTtl * 1000]
                     ELSE NoPresence]
    /\ activeChat = [u \in Users |->
                       IF \E c \in Members : SocketUser(c) = u
                       THEN [chatId |-> "R", exp |-> ActiveChatTtl * 1000]
                       ELSE NoActive]
    /\ typing = [r \in TypingKeys |-> [u \in Users |-> 0]]
    /\ rateKeys = [u \in Users |-> NoRate]
    /\ messages = <<>>
    /\ chatMsgCache = {}
    /\ timers = <<>>
    /\ calls = [p \in Callers |-> NoCall]
    /\ lastOp = Op("join_chat", 2, "B", "R")
    /\ out = <<Ev({2}, "chat_joined", "", "R", 0, "", Cardinality(Participants("R")))>>
    /\ seen = [b \in Conns |-> [k \in TypingKeys \X Users |->
                                  [typing |-> 0, stopped |-> 0]]]
    /\ typingOps = [b \in Conns |-> <<>>]
    /\ rlLog = <<>>
    /\ offlineAt = [u \in Users |-> -1]
    /\ endedAt = [c \in Conns |-> -1]
    /\ authCache = [token \in Tokens |-> 0]
    /\ lastAuth = NoAuth
    /\ faults = NoFaults

NextTyping ==
    \/ \E c \in Conns, r \in ChatIds : handleTypingStart(c, r)
    \/ \E c \in Conns, r \in ChatIds : TypingStop(c, r)
    \/ TimerFire
    \/ Tick(1000)

SpecTyping == Joined /\ [][NextTyping]_vars

\* the same with the legacy stopTyping event
NextStopTyping ==
    \/ \E c \in Conns, r \in ChatIds : handleTypingStart(c, r)
    \/ \E c \in Conns, r \in ChatIds : TypingStop(c, r)
    \/ \E c \in Conns, r \in ChatIds : stopTyping(c, r)
    \/ TimerFire
    \/ Tick(1000)

SpecStopTyping == Joined /\ [][NextStopTyping]_vars

\* socket 1 joins and leaves while socket 2 types
NextJoinLeave ==
    \/ \E r \in ChatInputs : handleJoinChat(1, r)
    \/ \E r \in ChatIds : LeaveChat(1, r)
    \/ \E r \in ChatIds : handleTypingStart(2, r)
    \/ TimerFire
    \/ Tick(1000)

SpecJoinLeave == Joined /\ [][NextJoinLeave]_vars

\* two handlers of socket 1 (actor A) in chat R, socket 2 (B) listening
NextSendOrder ==
    \/ \E p \in Callers : SendReceive(p, 1, "R")
    \/ \E p \in Callers : SendCreate(p)
    \/ \E p \in Callers : SendBroadcast(p)
    \/ Tick(1000)

SpecSendOrder == Joined /\ [][NextSendOrder]_vars

-----------------------------------------------------------------------------
(* checkRateLimit called for one key, one call at a time and concurrently *)

RateUsers == {"A"}

NextRateSeq ==
    \/ \E p \in Callers, u \in RateUsers :
          (\A q \in Callers : calls[q].pc = "idle") /\ RateBegin(p, u)
    \/ \E p \in Callers : RateFinish(p)
    \/ Tick(20000)

SpecRateSeq == Init /\ [][NextRateSeq]_vars

NextRate ==
    \/ \E p \in Callers, u \in RateUsers : RateBegin(p, u)
    \/ \E p \in Callers : RateFinish(p)
    \/ Tick(20000)

SpecRate == Init /\ [][NextRate]_vars

-----------------------------------------------------------------------------
(* Presence: several sockets of one actor and the notification channel *)

\* subscribeToNotificationChannel -> handleNotificationEvent, 'user_online'
handleUserOnlineNotification(u) ==
    /\ presence' = setUserOnline(u, 0)
    /\ lastOp' = Op("user_online_notification", 0, u, "")
    /\ Emits(<<Ev(Open, "user_online", u, "", 0, "", 0)>>)
    /\ UNCHANGED <<now, connState, connUser, connInst, connRooms, activeChat,
                   typing, rateKeys, messages, chatMsgCache, timers, calls,
                   typingOps, rlLog, offlineAt, endedAt, authCache, lastAuth, faults>>

handleUserOfflineNotification(u) ==
    /\ presence' = setUserOffline(u)
    /\ offlineAt' = [offlineAt EXCEPT ![u] = now]
    /\ lastOp' = Op("user_offline_notification", 0, u, "")
    /\ Emits(<<Ev(Open, "user_offline", u, "", 0, "", 0)>>)
    /\ UNCHANGED <<now, connState, connUser, connInst, connRooms, activeChat,
                   typing, rateKeys, messages, chatMsgCache, timers, calls,
                   typingOps, rlLog, endedAt, authCache, lastAuth, faults>>

\* POST /api/users/online-status/:userId, called by the authenticated actor x
\* for the actor y of the path; the socket id written is the text 'manual',
\* which is no socket of the server (0 here)
setOnlineStatus(x, y, isOnline) ==
    /\ presence' = IF isOnline THEN setUserOnline(y, 0) ELSE setUserOffline(y)
    /\ offlineAt' = IF isOnline THEN offlineAt ELSE [offlineAt EXCEPT ![y] = now]
    /\ lastOp' = Op("online_status", 0, x, "")
    /\ Emits(<<>>)
    /\ UNCHANGED <<now, connState, connUser, connInst, connRooms, activeChat,
                   typing, rateKeys, messages, chatMsgCache, timers, calls,
                   typingOps, rlLog, endedAt, authCache, lastAuth, faults>>

\* actor A calls the endpoint for itself and for B
NextManual ==
    \/ \E c \in Members : Connect(c, SocketUser(c), 1)
    \/ \E c \in Members : Disconnect(c)
    \/ \E y \in Participants("R"), isOnline \in BOOLEAN :
          setOnlineStatus("A", y, isOnline)
    \/ Tick(300000)

SpecManual == Init /\ [][NextManual]_vars

\* sockets are opened in the order of their ids, by any actor
NextPresence ==
    \/ \E c \in Conns, u \in Users :
          (\A d \in Conns : d < c => connState[d] # "free") /\ Connect(c, u, 1)
    \/ \E c \in Conns : Disconnect(c)
    \/ \E c \in Conns, r \in ChatIds : handleJoinChat(c, r)
    \/ \E u \in Users : handleUserOnlineNotification(u)
    \/ \E u \in Users : handleUserOfflineNotification(u)

SpecPresence == Init /\ [][NextPresence]_vars

-----------------------------------------------------------------------------
(* An instance dies without running its disconnect handlers *)

\* the process of instance i is killed: its sockets are gone, its pending
\* timers are lost, nothing is written and nothing is emitted
Kill(i) ==
    /\ \E c \in Open : connInst[c] = i
    /\ connState' = [c \in Conns |->
                       IF connState[c] = "open" /\ connInst[c] = i THEN "killed"
                       ELSE connState[c]]
    /\ endedAt' = [c \in Conns |->
                     IF connState[c] = "open" /\ connInst[c] = i THEN now
                     ELSE endedAt[c]]
    /\ timers' = SelectSeq(timers, LAMBDA t : connInst[t.conn] # i)
    /\ lastOp' = Op("kill", 0, NoUser, "")
    /\ Emits(<<>>)
    /\ UNCHANGED <<now, connUser, connInst, connRooms, presence, activeChat,
                   typing, rateKeys, messages, chatMsgCache, calls, typingOps,
                   rlLog, offlineAt, authCache, lastAuth, faults>>

NextCrash ==
    \/ \E i \in Instances : Kill(i)
    \/ \E c \in Conns : Disconnect(c)
    \/ \E c \in Conns : Connect(c, SocketUser(c), SocketInstance(c))
    \/ Tick(100000)

SpecCrash == Joined /\ [][NextCrash]_vars

-----------------------------------------------------------------------------
(* Typing while an instance dies with its timers *)

NextTypingCrash ==
    \/ \E c \in Conns, r \in ChatIds : handleTypingStart(c, r)
    \/ TimerFire
    \/ \E i \in Instances : Kill(i)
    \/ Tick(1000)

SpecTypingCrash == Joined /\ [][NextTypingCrash]_vars

-----------------------------------------------------------------------------
(* Typing sockets that disconnect while their timers are pending *)

NextTypingClose ==
    \/ \E c \in Conns, r \in ChatIds : handleTypingStart(c, r)
    \/ \E c \in Conns : Disconnect(c)
    \/ TimerFire
    \/ Tick(1000)

SpecTypingClose == Joined /\ [][NextTypingClose]_vars

-----------------------------------------------------------------------------
(* The /groupchat namespace next to the main one *)

NextGroup ==
    \/ \E c \in Conns : Connect(c, SocketUser(c), SocketInstance(c))
    \/ \E c \in Conns, r \in ChatIds : handleJoinChat(c, r)
    \/ \E c \in Conns, r \in ChatIds : joinGroupChat(c, r)
    \/ \E c \in Conns, r \in ChatIds : SendMessage(c, r, <<"h", "i">>, "text")

SpecGroup == Init /\ [][NextGroup]_vars

\* typing announced through the /groupchat namespace
NextGroupTyping ==
    \/ \E c \in Conns : Connect(c, SocketUser(c), SocketInstance(c))
    \/ \E c \in Conns, r \in ChatIds : handleJoinChat(c, r)
    \/ \E c \in Conns, r \in ChatIds : joinGroupChat(c, r)
    \/ \E c \in Conns, r \in ChatIds, u \in Users, isTyping \in BOOLEAN :
          groupTyping(c, r, u, isTyping)

SpecGroupTyping == Init /\ [][NextGroupTyping]_vars

\* typing on socket 1 of actor A, who may also join the /groupchat room and
\* open a second socket (3)
NextOwnTyping ==
    \/ Connect(3, "A", 1)
    \/ handleJoinChat(3, "R")
    \/ joinGroupChat(1, "R")
    \/ handleTypingStart(1, "R")
    \/ TypingStop(1, "R")
    \/ TimerFire
    \/ Tick(1000)

SpecOwnTyping == Joined /\ [][NextOwnTyping]_vars

-----------------------------------------------------------------------------
(* Connection requests with good, missing and bad tokens *)

NextAuth ==
    \/ \E c \in Conns, token \in Tokens, verdict \in Verdicts :
          /\ \A d \in Conns : d < c => connState[d] # "free"
          /\ Handshake(c, token, verdict, 1)
    \/ \E c \in Conns : Disconnect(c)
    \/ Tick(20000)

SpecAuth == Init /\ [][NextAuth]_vars

\* the same requests with the connection handler as written
NextUnbound ==
    \/ \E c \in Conns, token \in Tokens, verdict \in Verdicts :
          /\ \A d \in Conns : d < c => connState[d] # "free"
          /\ connection(c, token, verdict, 1)
    \/ \E c \in Conns : disconnectUnbound(c)
    \/ Tick(20000)

SpecUnbound == Init /\ [][NextUnbound]_vars

-----------------------------------------------------------------------------
(* Collaborators that fail *)

\* a collaborator (the Redis store, the publishers) goes down or comes back
Fault(kind) ==
    /\ faults' = [faults EXCEPT ![kind] = ~@]
    /\ lastOp' = Op("fault", 0, NoUser, "")
    /\ Emits(<<>>)
    /\ UNCHANGED <<now, connState, connUser, connInst, connRooms, presence,
                   activeChat, typing, rateKeys, messages, chatMsgCache, timers,
                   calls, typingOps, rlLog, offlineAt, endedAt, authCache,
                   lastAuth>>

\* the connection handler while the store is down: setUserOnline is not
\* awaited, its rejection is not handled, the rest of the handler runs
ConnectOutage(c, u, i) ==
    /\ faults.store
    /\ connState[c] = "free"
    /\ connState' = [connState EXCEPT ![c] = "open"]
    /\ connUser' = [connUser EXCEPT ![c] = u]
    /\ connInst' = [connInst EXCEPT ![c] = i]
    /\ connRooms' = [connRooms EXCEPT ![c] = {UserRoom(u)}]
    /\ lastOp' = Op("connection", c, u, "")
    /\ Emits(ConnectEvents(c, u))
    /\ UNCHANGED <<now, presence, activeChat, typing, rateKeys, messages,
                   chatMsgCache, timers, calls, typingOps, rlLog, offlineAt,
                   endedAt, authCache, lastAuth, faults>>

\* send_message while the store is down: the redisClient.get of checkRateLimit
\* rejects and the catch block of the handler answers
SendMessageOutage(c, r, content, type) ==
    /\ faults.store
    /\ connState[c] = "open"
    /\ lastOp' = [Op("send_message", c, connUser[c], r) EXCEPT
                    !.valid = ValidSend(connUser[c], r, content)]
    /\ Emits(<<ErrorTo(c, "Failed to send message")>>)
    /\ UNCHANGED <<now, connState, connUser, connInst, connRooms, presence,
                   activeChat, typing, rateKeys, messages, chatMsgCache, timers,
                   calls, typingOps, rlLog, offlineAt, endedAt, authCache,
                   lastAuth, faults>>

\* join_chat while the store is down: the chat lookup and the two socket.join
\* calls succeed, the awaited setUserActiveInChat rejects and the catch block
\* of the handler answers
handleJoinChatOutage(c, r) ==
    LET u == connUser[c] IN
    /\ faults.store
    /\ connState[c] = "open"
    /\ IF JoinOutcome(u, r) = "chat_joined" THEN
          /\ connRooms' = [connRooms EXCEPT ![c] = @ \cup {ChatRoom(r), PlainRoom(r)}]
          /\ Emits(<<ErrorTo(c, "Failed to join chat")>>)
       ELSE
          /\ Emits(<<ErrorTo(c, JoinOutcome(u, r))>>)
          /\ UNCHANGED connRooms
    /\ lastOp' = Op("join_chat", c, u, r)
    /\ UNCHANGED <<now, connState, connUser, connInst, presence, activeChat,
                   typing, rateKeys, messages, chatMsgCache, timers, calls,
                   typingOps, rlLog, offlineAt, endedAt, authCache, lastAuth,
                   faults>>

\* send_message when the store goes down while the handler runs: the rate
\* check and newMessage.save() have succeeded, the awaited cacheMessage
\* rejects and the catch block of the handler answers
SendMessageCacheFails(c, r, content, type) ==
    LET u == connUser[c]
        d == checkRateLimit(GetActions(u), now, MessageLimit, WindowSeconds)
    IN
    /\ ~faults.store
    /\ connState[c] = "open"
    /\ SendAttempts < MaxMsgs
    /\ SendOutcome(u, r, content, type, d) = "sent"
    /\ rateKeys' = RateWrite(u, d, WindowSeconds)
    /\ messages' = Append(messages, NewMessage(r, u, Trim(content), type))
    /\ faults' = [faults EXCEPT !.store = TRUE]
    /\ lastOp' = [Op("send_message", c, u, r) EXCEPT
                    !.valid = ValidSend(u, r, content)]
    /\ Emits(<<ErrorTo(c, "Failed to send message")>>)
    /\ UNCHANGED <<now, connState, connUser, connInst, connRooms, presence,
                   activeChat, typing, chatMsgCache, timers, calls, typingOps,
                   rlLog, offlineAt, endedAt, authCache, lastAuth>>

\* the disconnect handler while the store is down: the awaited setUserOffline
\* rejects and the handler stops there
DisconnectOutage(c) ==
    /\ faults.store
    /\ connState[c] = "open"
    /\ connState' = [connState EXCEPT ![c] = "closed"]
    /\ connRooms' = [connRooms EXCEPT ![c] = {}]
    /\ endedAt' = [endedAt EXCEPT ![c] = now]
    /\ lastOp' = Op("disconnect", c, connUser[c], "")
    /\ Emits(<<>>)
    /\ UNCHANGED <<now, connUser, connInst, presence, activeChat, typing,
                   rateKeys, messages, chatMsgCache, timers, calls, typingOps,
                   rlLog, offlineAt, authCache, lastAuth, faults>>

NextOutage ==
    \/ \E c \in Conns :
          ~faults.store /\ Connect(c, SocketUser(c), SocketInstance(c))
    \/ \E c \in Conns : ConnectOutage(c, SocketUser(c), SocketInstance(c))
    \/ \E c \in Conns, r \in ChatIds : ~faults.store /\ handleJoinChat(c, r)
    \/ \E c \in Conns, r \in ChatInputs, in \in SendInputs :
          ~faults.store /\ SendMessage(c, r, in[1], in[2])
    \/ \E c \in Conns, r \in ChatInputs, in \in SendInputs :
          SendMessageOutage(c, r, in[1], in[2])
    \/ \E c \in Conns : ~faults.store /\ Disconnect(c)
    \/ \E c \in Conns : DisconnectOutage(c)
    \/ Fault("store")

SpecOutage == Init /\ [][NextOutage]_vars

NextSendFault ==
    \/ \E c \in Conns :
          ~faults.store /\ Connect(c, SocketUser(c), SocketInstance(c))
    \/ \E c \in Conns, r \in ChatIds : ~faults.store /\ handleJoinChat(c, r)
    \/ \E c \in Conns, r \in ChatInputs, in \in SendInputs :
          ~faults.store /\ SendMessage(c, r, in[1], in[2])
    \/ \E c \in Conns, r \in ChatInputs, in \in SendInputs :
          SendMessageCacheFails(c, r, in[1], in[2])
    \/ \E c \in Conns, r \in ChatInputs, in \in SendInputs :
          SendMessageOutage(c, r, in[1], in[2])
    \/ Fault("store")

SpecSendFault == Init /\ [][NextSendFault]_vars

NextJoinFault ==
    \/ \E c \in Conns :
          ~faults.store /\ Connect(c, SocketUser(c), SocketInstance(c))
    \/ \E c \in Conns, r \in ChatInputs : ~faults.store /\ handleJoinChat(c, r)
    \/ \E c \in Conns, r \in ChatInputs : handleJoinChatOutage(c, r)
    \/ \E c \in Conns, r \in ChatIds : ~faults.store /\ LeaveChat(c, r)
    \/ Fault("store")

SpecJoinFault == Init /\ [][NextJoinFault]_vars

NextPublish ==
    \/ \E c \in Conns : Connect(c, SocketUser(c), SocketInstance(c))
    \/ \E c \in Conns, r \in ChatIds : handleJoinChat(c, r)
    \/ \E c \in Conns, r \in ChatIds, in \in SendInputs :
          SendMessage(c, r, in[1], in[2])
    \/ \E c \in Conns, r \in ChatIds, ids \in MarkInputs : handleMarkRead(c, r, ids)
    \/ Fault("publish")

SpecPublish == Init /\ [][NextPublish]_vars

-----------------------------------------------------------------------------
(* Events that name a missing chat, a missing message or a foreign chat *)

NextErrors ==
    \/ \E c \in Conns : Connect(c, SocketUser(c), SocketInstance(c))
    \/ \E c \in Conns, r \in ChatInputs : handleJoinChat(c, r)
    \/ \E c \in Conns, r \in ChatInputs, in \in SendInputs :
          SendMessage(c, r, in[1], in[2])
    \/ \E c \in Conns, r \in ChatIds \cup {MissingChat}, ids \in MarkInputs :
          handleMarkRead(c, r, ids)

SpecErrors == Init /\ [][NextErrors]_vars

-----------------------------------------------------------------------------
(* Message lists read over REST while messages are sent and read *)

NextCache ==
    \/ \E c \in Conns : Connect(c, SocketUser(c), SocketInstance(c))
    \/ \E c \in Conns, r \in ChatIds : handleJoinChat(c, r)
    \/ \E c \in Conns, r \in ChatIds : SendMessage(c, r, <<"h", "i">>, "text")
    \/ \E c \in Conns, r \in ChatIds, ids \in MarkInputs : handleMarkRead(c, r, ids)
    \/ \E r \in ChatIds, limit \in {"50", "10"} : getChatMessages(r, limit)
    \/ \E u \in Participants("R"), ids \in MarkInputs : markMessagesRead(u, "R", ids)

SpecCache == Init /\ [][NextCache]_vars

-----------------------------------------------------------------------------
(* One event on the notification channel, handled by every instance *)

NotificationTypes == {"user_online", "user_offline", "message_notification"}

\* io.emit / io.to(room).emit called on instance i. createAdapter(pub, sub) is
\* installed by the same connect() that creates the subscribers, so the
\* broadcast reaches the local sockets and, through the adapter, the sockets
\* of every other instance
AdapterReach(i, sockets) ==
    {c \in sockets : connInst[c] = i} \cup {c \in sockets : connInst[c] # i}

\* handleNotificationEvent on instance i: what the instance emits
handleNotificationEvent(i, type, u) ==
    IF type = "message_notification"
    THEN <<Ev(AdapterReach(i, InRoom(UserRoom(u))), "new_notification", u, "", 0, "", 0)>>
    ELSE <<Ev(AdapterReach(i, Open), type, u, "", 0, "", 0)>>

RECURSIVE FanOut(_, _, _)
FanOut(instances, type, u) ==
    IF instances = {} THEN <<>>
    ELSE LET i == CHOOSE x \in instances : \A y \in instances : x <= y
         IN handleNotificationEvent(i, type, u) \o FanOut(instances \ {i}, type, u)

\* a message published on REDIS_NOTIFICATION_CHANNEL: Redis hands it to the
\* subscriber of every instance and each runs handleNotificationEvent
NotificationPublished(type, u) ==
    /\ presence' = IF type = "user_online" THEN setUserOnline(u, 0)
                   ELSE IF type = "user_offline" THEN setUserOffline(u)
                   ELSE presence
    /\ offlineAt' = IF type = "user_offline"
                    THEN [offlineAt EXCEPT ![u] = now] ELSE offlineAt
    /\ lastOp' = [Op(type, 0, u, "") EXCEPT !.count = Cardinality(Instances)]
    /\ Emits(FanOut(Instances, type, u))
    /\ UNCHANGED <<now, connState, connUser, connInst, connRooms, activeChat,
                   typing, rateKeys, messages, chatMsgCache, timers, calls,
                   typingOps, rlLog, endedAt, authCache, lastAuth, faults>>

NextFanout ==
    \/ \E c \in Conns : Connect(c, SocketUser(c), SocketInstance(c))
    \/ \E c \in Conns : Disconnect(c)
    \/ \E type \in NotificationTypes, u \in Users : NotificationPublished(type, u)

SpecFanout == Init /\ [][NextFanout]_vars

-----------------------------------------------------------------------------
(* Marking a whole chat read, with messages of several senders and chats *)

\* A, B and C are connected; A and B have each sent a message to R and C has
\* sent one to S: the state after Connect(1), Connect(2), Connect(3),
\* SendMessage(1, "R"), SendMessage(2, "R"), SendMessage(3, "S")
Stored ==
    /\ now = 0
    /\ connState = [c \in Conns |-> "open"]
    /\ connUser = [c \in Conns |-> SocketUser(c)]
    /\ connInst = [c \in Conns |-> SocketInstance(c)]
    /\ connRooms = [c \in Conns |-> {UserRoom(SocketUser(c))}]
    /\ presence = [u \in Users |->
                     [status |-> "online",
                      socketId |-> CHOOSE c \in Conns : SocketUser(c) = u,
                      lastSeen |-> 0, exp |-> OnlineTtl * 1000]]
    /\ activeChat = [u \in Users |-> NoActive]
    /\ typing = [r \in TypingKeys |-> [u \in Users |-> 0]]
    /\ rateKeys = [u \in Users |-> [list |-> <<0>>, exp |-> WindowSeconds * 1000]]
    /\ messages = << NewMessage("R", "A", <<"h", "i">>, "text"),
                     NewMessage("R", "B", <<"h", "i">>, "text"),
                     NewMessage(OtherChat, "C", <<"h", "i">>, "text") >>
    /\ chatMsgCache = {}
    /\ timers = <<>>
    /\ calls = [p \in Callers |-> NoCall]
    /\ lastOp = [Op("send_message", 3, "C", OtherChat) EXCEPT
                   !.count = 3, !.valid = TRUE]
    /\ out = SendEvents(3, "C", OtherChat, 3, <<"h", "i">>)
    /\ seen = [b \in Conns |-> [k \in TypingKeys \X Users |->
                                  [typing |-> 0, stopped |-> 0]]]
    /\ typingOps = [b \in Conns |-> <<>>]
    /\ rlLog = <<>>
    /\ offlineAt = [u \in Users |-> -1]
    /\ endedAt = [c \in Conns |-> -1]
    /\ authCache = [token \in Tokens |-> 0]
    /\ lastAuth = NoAuth
    /\ faults = NoFaults

NextMarkAll ==
    \/ \E c \in Conns, r \in ChatIds \cup {OtherChat}, ids \in MarkInputs :
          handleMarkRead(c, r, ids)
    \/ \E c \in Conns, r \in ChatIds \cup {OtherChat}, ids \in MarkInputs :
          mark_messages_read(c, r, ids)

SpecMarkAll == Stored /\ [][NextMarkAll]_vars

-----------------------------------------------------------------------------
(* mark_messages_read handlers that overlap: B and C acknowledge message 1 *)

NextMarkRace ==
    \/ \E p \in Callers, c \in {2, 3} : MarkReadFind(p, c, 1)
    \/ \E p \in Callers : MarkReadSave(p)

SpecMarkRace == Stored /\ [][NextMarkRace]_vars

-----------------------------------------------------------------------------
(* Properties *)

Bound(c) == connState[c] # "free"

\* C1: a socket whose actor is not a participant of chat R gets the error
\* 'No access to this chat' as the only answer to join_chat(R), is in neither
\* broadcast room of R, has no active-in-chat record for R, and is not among
\* the recipients of any new_message of R.
C1_JoinAccessControl ==
    /\ (/\ lastOp.op = "join_chat"
        /\ ChatExists(lastOp.chat)
        /\ lastOp.user \notin Participants(lastOp.chat))
       => out = <<ErrorTo(lastOp.conn, "No access to this chat")>>
    /\ \A c \in Conns, r \in ChatIds :
         (Bound(c) /\ connUser[c] \notin Participants(r))
         => /\ ChatRoom(r) \notin connRooms[c]
            /\ PlainRoom(r) \notin connRooms[c]
            /\ GetActiveChat(connUser[c]).chatId # r
            /\ \A i \in DOMAIN out :
                 (out[i].ev \in {"new_message", "receiveMessage"} /\ out[i].chat = r)
                 => c \notin out[i].to

\* a non-participant has just asked to join R and has been refused
C1_Witness ==
    /\ lastOp.op = "join_chat"
    /\ lastOp.chat = "R"
    /\ lastOp.user = "C"
    /\ Len(out) = 1
    /\ out[1].ev = "error"
    /\ out[1].to = {lastOp.conn}

StartThenStop(a) ==
    /\ Len(typingOps[a]) = 2
    /\ typingOps[a][1].op = "typing_start"
    /\ typingOps[a][2].op = "typing_stop"
    /\ typingOps[a][2].at < typingOps[a][1].at + getTypingTimeout

PendingTimers(a) == {i \in DOMAIN timers : timers[i].conn = a}

Subscribed(c, r) == c \in InRoom(ChatRoom(r))

\* C2: when A has sent typing_start and then typing_stop inside the typing
\* timeout, and none of A's timers is pending any more, a socket B subscribed
\* to the same chat has received exactly one user_typing and exactly one
\* user_stopped_typing for A.
C2_TypingExactlyOnce ==
    \A a \in Conns, b \in Conns, r \in ChatIds :
       (/\ a # b
        /\ Subscribed(a, r) /\ Subscribed(b, r)
        /\ StartThenStop(a)
        /\ PendingTimers(a) = {})
       => seen[b][<<r, connUser[a]>>] = [typing |-> 1, stopped |-> 1]

NoStop(a) == \A i \in DOMAIN typingOps[a] : typingOps[a][i].op # "typing_stop"

\* C3: while A sends no typing_stop, a socket B subscribed to the chat has
\* received one user_typing per typing_start of A and never more, and for
\* each of those starts either B has received the user_stopped_typing or the
\* timer of that start is still pending, due getTypingTimeout after the start
\* and not yet overdue.
C3_TypingTimesOut ==
    \A a \in Conns, b \in Conns, r \in ChatIds :
       (a # b /\ Subscribed(a, r) /\ Subscribed(b, r) /\ NoStop(a))
       => /\ seen[b][<<r, connUser[a]>>].typing = Len(typingOps[a])
          /\ seen[b][<<r, connUser[a]>>].stopped + Cardinality(PendingTimers(a))
               = Len(typingOps[a])
          /\ \A i \in PendingTimers(a) :
               /\ now <= timers[i].due
               /\ \E k \in DOMAIN typingOps[a] :
                    timers[i].due = typingOps[a][k].at + getTypingTimeout

\* A started typing, never stopped, and the timeout has just told B
C3_Witness ==
    /\ lastOp.op = "typing_timeout"
    /\ lastOp.conn = 1
    /\ NoStop(1)
    /\ PendingTimers(1) = {}
    /\ Subscribed(2, "R")
    /\ seen[2][<<"R", "A">>].stopped = Len(typingOps[1])
    /\ now = typingOps[1][Len(typingOps[1])].at + getTypingTimeout

\* the calls admitted for the key of call i inside the window that ends at
\* the time of call i, among the calls in S
AdmittedInWindow(i, S) ==
    {j \in S : /\ rlLog[j].allowed
               /\ rlLog[j].user = rlLog[i].user
               /\ rlLog[j].t > rlLog[i].t - WindowSeconds * 1000
               /\ rlLog[j].t <= rlLog[i].t}

\* C4: with calls made one at a time, a call is allowed exactly when fewer
\* than Limit earlier calls for the key were admitted inside the window that
\* ends at the call: the first Limit calls pass, the next one inside the
\* window is refused, and a call after the window has elapsed passes.
C4_RateLimitSequential ==
    \A i \in DOMAIN rlLog :
       rlLog[i].allowed <=> Cardinality(AdmittedInWindow(i, 1 .. (i - 1))) < Limit

\* Limit calls admitted, one more refused inside the window, and a call
\* after the window admitted again
C4_Witness ==
    /\ Len(rlLog) = Limit + 2
    /\ \A i \in 1 .. Limit : rlLog[i].allowed
    /\ ~rlLog[Limit + 1].allowed
    /\ rlLog[Limit + 1].t < rlLog[1].t + WindowSeconds * 1000
    /\ rlLog[Limit + 2].allowed
    /\ rlLog[Limit + 2].t >= rlLog[Limit].t + WindowSeconds * 1000

\* C5: with concurrent calls, the calls admitted for one key inside any
\* window that ends at a call never number more than Limit.
C5_RateLimitAtomic ==
    \A i \in DOMAIN rlLog :
       Cardinality(AdmittedInWindow(i, DOMAIN rlLog)) <= Limit

\* C6: a mark_messages_read that repeats the call handled just before it
\* (same socket, chat and ids) acknowledges nothing and leaves every readBy
\* as it was.
C6_MarkReadIdempotent ==
    (lastOp.op = "mark_messages_read" /\ lastOp.repeat)
    => /\ lastOp.count = 0
       /\ ~lastOp.changed

\* the first call acknowledged a message, the repeated call none
C6_Witness ==
    /\ lastOp.op = "mark_messages_read"
    /\ lastOp.repeat
    /\ lastOp.prevCount > 0
    /\ lastOp.count = 0
    /\ lastOp.ids # {}

AnnouncedBy(evs, ev, u) ==
    \E i \in DOMAIN evs :
       evs[i].via = "socket" /\ evs[i].ev = ev /\ evs[i].user = u

\* C7: a step broadcasts user_online for an actor exactly when the actor's
\* presence goes from not online to online in that step, and user_offline
\* exactly when it goes from online to not online.
C7_PresenceAnnouncedOnce ==
    [][\A u \in Users :
         /\ AnnouncedBy(out', "user_online", u) <=> (~IsOnline(u) /\ IsOnline(u)')
         /\ AnnouncedBy(out', "user_offline", u) <=> (IsOnline(u) /\ ~IsOnline(u)')
      ]_vars

OpenSocketsOf(u) == {c \in Open : connUser[c] = u}

SharesRoom(b, c) ==
    \E r \in ChatIds : ChatRoom(r) \in connRooms[b] /\ ChatRoom(r) \in connRooms[c]

\* C8: once the presence TTL has passed since an instance was killed with
\* A's only socket, A's online record is gone and user_offline for A has
\* been broadcast to the peers that share a chat with A.
C8_CrashSeenOffline ==
    \A c \in Conns :
       (/\ connState[c] = "killed"
        /\ OpenSocketsOf(connUser[c]) = {}
        /\ now >= endedAt[c] + OnlineTtl * 1000)
       => /\ ~IsOnline(connUser[c])
          /\ \A b \in Open :
               SharesRoom(b, c) => offlineAt[connUser[c]] >= endedAt[c]

\* C9: the message_sent acknowledgement of a message comes after a
\* new_message with the stored content to every socket subscribed to the
\* chat, and a mark_messages_read that acknowledges something sends
\* messages_read naming the reader to the other subscribed sockets.
C9_SendThenRead ==
    /\ \A j \in DOMAIN out :
         (out[j].ev = "message_sent" /\ out[j].via = "socket")
         => \E i \in 1 .. (j - 1) :
               /\ out[i].ev = "new_message"
               /\ out[i].msg = out[j].msg
               /\ out[i].content = messages[out[j].msg].content
               /\ out[i].to = InRoom(ChatRoom(messages[out[j].msg].chat))
    /\ (lastOp.op = "mark_messages_read" /\ lastOp.count > 0)
       => \E i \in DOMAIN out :
             /\ out[i].ev = "messages_read"
             /\ out[i].user = lastOp.user
             /\ out[i].to = InRoom(ChatRoom(lastOp.chat)) \ {lastOp.conn}

\* B, joined to R like A, marks A's message read and A is told
C9_Witness ==
    /\ lastOp.op = "mark_messages_read"
    /\ lastOp.user = "B"
    /\ lastOp.ids = {1}
    /\ lastOp.count = 1
    /\ Len(messages) >= 1
    /\ messages[1].sender = "A"
    /\ \E i \in DOMAIN out :
          out[i].ev = "messages_read" /\ out[i].user = "B" /\ 1 \in out[i].to

\* C10: when the disconnect handler has run for the only socket of an actor,
\* the actor is not online, has no typing marker and has no active-in-chat
\* record.
C10_DisconnectCleanup ==
    (lastOp.op = "disconnect" /\ OpenSocketsOf(lastOp.user) = {})
    => /\ ~IsOnline(lastOp.user)
       /\ TypingKeysOf(lastOp.user) = {}
       /\ ~HasActiveChat(lastOp.user)

\* the last connection request had no token, or the provider was asked about
\* its token and did not vouch for it
Unverified ==
    /\ lastOp.op \in {"connection", "connection_refused"}
    /\ \/ lastAuth.token = NoToken
       \/ ~lastAuth.cached /\ lastAuth.verdict # "ok"

\* C11: a connection request without token, or with a token the identity
\* provider rejects or cannot verify, is refused: the socket stays free, no
\* room is joined, no presence record is written, nothing is published and
\* nothing is broadcast.
C11_RefusedBeforeState ==
    Unverified
    => /\ lastOp.op = "connection_refused"
       /\ lastAuth.outcome # "ok"
       /\ out = <<>>
       /\ connState[lastAuth.conn] = "free"
       /\ connRooms[lastAuth.conn] = {}
       /\ \A u \in Users : presence[u].socketId # lastAuth.conn

\* a forged token has just been refused while another actor is connected
C11_Witness ==
    /\ lastOp.op = "connection_refused"
    /\ lastAuth.token = "forged"
    /\ lastAuth.outcome = "authentication_failed"
    /\ Open # {}

\* the last event persisted something and its publish failed
PublishFailed ==
    /\ faults.publish
    /\ lastOp.op \in {"send_message", "mark_messages_read"}
    /\ lastOp.count > 0

\* C12: when the publish of a send_message or mark_messages_read fails, the
\* originating socket gets no message_sent and gets an explicit error.
C12_PublishFailureReported ==
    PublishFailed
    => /\ \A i \in DOMAIN out : out[i].ev # "message_sent"
       /\ \E i \in DOMAIN out : out[i].ev = "error" /\ out[i].to = {lastOp.conn}

\* C13: while the store is down, a valid send_message of a participant is
\* persisted and delivered as new_message to the chat room, and the
\* disconnect handler still announces the actor offline.
C13_PresenceFailsSoft ==
    /\ (faults.store /\ lastOp.op = "send_message" /\ lastOp.valid)
       => /\ lastOp.count > 0
          /\ \E i \in DOMAIN out :
                /\ out[i].ev = "new_message"
                /\ out[i].to = InRoom(ChatRoom(lastOp.chat))
    /\ (faults.store /\ lastOp.op = "disconnect")
       => AnnouncedBy(out, "user_offline", lastOp.user)

RoomEvents ==
    {"join_chat", "send_message", "typing_start", "typing_stop",
     "mark_messages_read"}

\* the last event named no chat, a chat that does not exist, a chat the actor
\* is no participant of, or a message that does not exist
FailedEvent ==
    /\ lastOp.op \in RoomEvents
    /\ \/ ~ChatExists(lastOp.chat)
       \/ lastOp.user \notin Participants(lastOp.chat)
       \/ \E m \in lastOp.ids : m \notin MsgIds

\* C14: an event that fails for missing access, a missing chat or a missing
\* message is answered with an error or rate_limit_exceeded event to the
\* socket that sent it.
C14_FailuresExplicit ==
    FailedEvent
    => \E i \in DOMAIN out :
          /\ out[i].ev \in {"error", "rate_limit_exceeded"}
          /\ out[i].to = {lastOp.conn}

\* what redisClient.get would return for the key of u at time t, were nothing
\* written until then
ActionsAt(u, t) == IF t < rateKeys[u].exp THEN rateKeys[u].list ELSE <<>>

Quiet == \A p \in Callers : calls[p].pc = "idle"

\* C15: a refused call carries a reset time later than the call; a retry at
\* that time is admitted, both as computed on the store right after the
\* refusal and as observed for the first call made at or after the reset
\* time with no admission in between.
C15_OverLimitDecision ==
    /\ \A i \in DOMAIN rlLog :
         ~rlLog[i].allowed
         => /\ rlLog[i].remaining = 0
            /\ rlLog[i].resetTime > rlLog[i].t
            /\ \A j \in (i + 1) .. Len(rlLog) :
                 (/\ rlLog[j].user = rlLog[i].user
                  /\ rlLog[j].t >= rlLog[i].resetTime
                  /\ \A k \in (i + 1) .. (j - 1) : ~rlLog[k].allowed)
                 => rlLog[j].allowed
    /\ (Quiet /\ rlLog # <<>> /\ ~rlLog[Len(rlLog)].allowed)
       => LET last == rlLog[Len(rlLog)] IN
          checkRateLimit(ActionsAt(last.user, last.resetTime), last.resetTime,
                         Limit, WindowSeconds).allowed

\* a refused call, retried exactly at its reset time and admitted
C15_Witness ==
    /\ Len(rlLog) >= 2
    /\ ~rlLog[Len(rlLog) - 1].allowed
    /\ rlLog[Len(rlLog)].allowed
    /\ rlLog[Len(rlLog)].t = rlLog[Len(rlLog) - 1].resetTime

\* C16: right after a mark_messages_read that newly acknowledged at least one
\* message of a chat, no cached message list of that chat is readable, so the
\* next getChatMessages reads the store.
C16_MarkReadInvalidatesCache ==
    (lastOp.op = "mark_messages_read" /\ lastOp.count > 0)
        => \A e \in chatMsgCache : e.chat = lastOp.chat => ~(now < e.exp)

ReadAnnouncements == {"messages_read", "messageRead"}

\* C17: a mark-read call, over the socket or over REST, that newly
\* acknowledges no message publishes no messages_read event and emits no
\* messages_read or messageRead.
C17_ZeroCountSilent ==
    (/\ lastOp.op \in {"mark_messages_read", "rest_mark_messages_read"}
     /\ lastOp.count = 0)
        => \A i \in DOMAIN out : out[i].ev \notin ReadAnnouncements

\* the messages of chat r that u did not send and has not acknowledged
MarkAllTarget(u, r) ==
    {m \in MsgIds : /\ messages[m].chat = r
                    /\ messages[m].sender # u
                    /\ ~HasRead(m, u)}

Received(c) == Cardinality({i \in DOMAIN out : c \in out[i].to})

\* C19: one event published on the notification channel reaches every
\* attached socket it is meant for exactly once, however many instances are
\* subscribed: all open sockets for user_online and user_offline, the sockets
\* of the recipient for a message notification.
C19_FanOutOnce ==
    /\ lastOp.op \in {"user_online", "user_offline"}
       => \A c \in Open : Received(c) = 1
    /\ lastOp.op = "message_notification"
       => \A c \in InRoom(UserRoom(lastOp.user)) : Received(c) = 1

\* the pending typing timers of actor u in chat r
TimersOf(r, u) == {i \in DOMAIN timers : timers[i].chat = r /\ timers[i].user = u}

\* the times of the typing_start events socket c has sent
StartsOf(c) ==
    {typingOps[c][k].at : k \in {j \in DOMAIN typingOps[c] :
                                   typingOps[c][j].op = "typing_start"}}

\* C20: at most one typing timer is pending per chat and actor, and a timer
\* that fires does so no earlier than getTypingTimeout after the latest
\* typing_start of its socket.
C20_OneTimerPerActor ==
    /\ \A r \in ChatIds, u \in Users : Cardinality(TimersOf(r, u)) <= 1
    /\ lastOp.op = "typing_timeout"
       => \A t \in StartsOf(lastOp.conn) : now >= t + getTypingTimeout

\* C21: a typing_start of an actor whose typing marker for the chat is
\* present refreshes the marker and emits no user_typing.
C21_NoReannounce ==
    [][(lastOp'.op = "typing_start" /\ IsTyping(lastOp'.chat, lastOp'.user))
        => /\ typing'[lastOp'.chat][lastOp'.user] = now + TypingTtl * 1000
           /\ \A i \in DOMAIN out' : out'[i].ev # "user_typing"]_vars

\* C22: a step emits user_stopped_typing for an actor and a chat only when
\* the actor's typing marker for that chat was present before the step.
C22_StopDeduplicated ==
    [][\A i \in DOMAIN out' :
          out'[i].ev = "user_stopped_typing"
          => IsTyping(out'[i].chat, out'[i].user)]_vars

\* the times at which a socket of actor u sent typing_start for some chat
StartTimes(u) ==
    UNION {StartsOf(c) : c \in {d \in Conns : connUser[d] = u}}

\* a visible marker is at most getTypingTimeout old
MarkerAge ==
    \A r \in TypingKeys, u \in Users :
       IsTyping(r, u) => \E t \in StartTimes(u) : now <= t + getTypingTimeout

\* a marker expires getTypingTimeout after the typing_start that wrote it
MarkerTtl ==
    \A r \in TypingKeys, u \in Users :
       IsTyping(r, u) => \E t \in StartTimes(u) : typing[r][u] = t + getTypingTimeout

\* C23: a typing marker that is present was created or refreshed by a
\* typing_start at most getTypingTimeout ago, also after the instance that
\* held the timer has died, and its TTL is getTypingTimeout.
C23_MarkerWithinTimeout == MarkerAge /\ MarkerTtl

\* C24: once the disconnect handler of a socket has run, no typing timer of
\* that socket is pending and none fires: no marker is removed and no
\* user_stopped_typing is emitted on its behalf.
C24_DisconnectCancelsTimers ==
    /\ \A i \in DOMAIN timers : connState[timers[i].conn] # "closed"
    /\ lastOp.op = "typing_timeout" => connState[lastOp.conn] # "closed"

\* the rooms the events of chat r are emitted to
TargetsOf(r) == {ChatRoom(r), PlainRoom(r), GroupRoom(r)}

\* C25: every socket subscribed to a room that the events of chat R are
\* emitted to belongs to a participant of R, and so does every socket that a
\* message of R is delivered to.
C25_BroadcastGroupMembers ==
    /\ \A c \in Open, r \in ChatIds :
          connRooms[c] \cap TargetsOf(r) # {} => connUser[c] \in Participants(r)
    /\ \A i \in DOMAIN out :
          out[i].ev \in {"new_message", "receiveMessage"}
          => \A c \in out[i].to : connUser[c] \in Participants(out[i].chat)

\* the step handled a room-scoped event of an actor outside the chat
OutsiderStep ==
    /\ lastOp'.op \in {"typing_start", "typing_stop", "mark_messages_read"}
    /\ lastOp'.user \notin Participants(lastOp'.chat)

\* C26: typing_start, typing_stop and mark_messages_read of an actor who is
\* no participant of the chat change no typing marker and no message and
\* reach no socket; a mark_messages_read with message ids changes only
\* messages of the chat it names.
C26_MembershipRequired ==
    [][/\ OutsiderStep
          => /\ messages' = messages
             /\ typing' = typing
             /\ \A i \in DOMAIN out' : out'[i].to = {}
       /\ (lastOp'.op = "mark_messages_read" /\ lastOp'.ids # {})
          => \A m \in MsgIds :
                messages'[m] # messages[m] => messages[m].chat = lastOp'.chat]_vars

\* C27: an actor with an open socket is online in the store.
C27_PresenceLive ==
    \A c \in Open : IsOnline(connUser[c])

\* how often actor u stands in readBy of message m
Entries(m, u) ==
    Cardinality({i \in DOMAIN messages[m].readBy : messages[m].readBy[i] = u})

\* C28: however mark-read operations for one message and one actor overlap,
\* readBy holds the actor once, and an operation reports a newly acknowledged
\* message only if the actor was not in the stored readBy when it saved, so
\* that the reported counts add up to 1.
C28_ConcurrentMarkRead ==
    [][/\ \A m \in DOMAIN messages', u \in Users :
             Cardinality({i \in DOMAIN messages'[m].readBy :
                             messages'[m].readBy[i] = u}) <= 1
       /\ (lastOp'.op = "mark_messages_read" /\ lastOp'.count = 1)
          => \A m \in lastOp'.ids : Entries(m, lastOp'.user) = 0]_vars

FailedToSend(evs) ==
    \E i \in DOMAIN evs : evs[i].ev = "error" /\ evs[i].text = "Failed to send message"

\* C29: a send_message that answers 'Failed to send message' has persisted
\* nothing and broadcast no new_message, and a send_message that persisted a
\* message has broadcast new_message to the chat room and answered
\* message_sent.
C29_SendAllOrNothing ==
    [][lastOp'.op = "send_message"
        => /\ FailedToSend(out')
              => /\ messages' = messages
                 /\ \A i \in DOMAIN out' : out'[i].ev # "new_message"
           /\ messages' # messages
              => /\ \E i \in DOMAIN out' :
                       /\ out'[i].ev = "new_message"
                       /\ out'[i].to = InRoom(ChatRoom(lastOp'.chat))
                 /\ \E i \in DOMAIN out' :
                       /\ out'[i].ev = "message_sent"
                       /\ out'[i].via = "socket"
                       /\ out'[i].to = {lastOp'.conn}]_vars

RepliedWith(evs, ev) == \E i \in DOMAIN evs : evs[i].ev = ev

\* C30: a join_chat that answers chat_joined leaves the socket in both rooms
\* of the chat and the actor active in it; a join_chat that answers with an
\* error subscribes the socket to nothing and writes no active-in-chat
\* record.
C30_JoinMatchesReply ==
    [][lastOp'.op = "join_chat"
        => /\ RepliedWith(out', "chat_joined")
              => /\ {ChatRoom(lastOp'.chat), PlainRoom(lastOp'.chat)}
                       \subseteq connRooms'[lastOp'.conn]
                 /\ activeChat'[lastOp'.user].chatId = lastOp'.chat
           /\ RepliedWith(out', "error")
              => /\ connRooms' = connRooms
                 /\ activeChat' = activeChat
           /\ RepliedWith(out', "chat_joined") \/ RepliedWith(out', "error")]_vars

\* C31: a socket admitted by allowRequest runs its handlers with the actor
\* id that was verified for its token, and that actor is online in the store
\* once the connection handler has run.
C31_BoundIdentity ==
    /\ \A c \in Open : connUser[c] # NoUser
    /\ lastOp.op = "connection"
       => /\ connUser[lastOp.conn] = reqUser(lastAuth.token)
          /\ IsOnline(reqUser(lastAuth.token))

\* C32: when a step has announced user_stopped_typing for an actor and a
\* chat, the store holds no typing marker of that actor for that chat.
C32_StoppedMeansNoMarker ==
    \A i \in DOMAIN out :
       out[i].ev = "user_stopped_typing" => ~IsTyping(out[i].chat, out[i].user)

TypingAnnouncements ==
    {"user_typing", "userTyping", "userTypingInGroup",
     "user_stopped_typing", "userStopTyping", "userStopTypingInGroup"}

\* C33: every typing or stopped-typing announcement names the actor bound to
\* the socket whose event caused it.
C33_NoImpersonation ==
    \A i \in DOMAIN out :
       out[i].ev \in TypingAnnouncements => out[i].user = lastOp.user

PresenceAnnounced(y) ==
    \E i \in DOMAIN out' :
       /\ out'[i].user = y
       /\ out'[i].ev \in {"user_online", "user_offline"}

\* C34: a step that rewrites the presence record of an actor is an operation
\* of that actor, and it announces the transition.
C34_OwnPresenceOnly ==
    [][\A y \in Users :
          presence'[y] # presence[y]
             => lastOp'.user = y /\ PresenceAnnounced(y)]_vars

ReadByOther(m) == \E u \in Range(messages[m].readBy) : u # messages[m].sender

\* C35: the stored delivery status of every message is 'read' exactly when
\* readBy holds an actor other than the sender, and 'sent' otherwise.
C35_StatusFollowsReadBy ==
    \A m \in MsgIds :
       /\ messages[m].deliveryStatus \in {"sent", "read"}
       /\ messages[m].deliveryStatus = "read" <=> ReadByOther(m)

\* a recipient has just acknowledged a message
C35_Witness ==
    /\ lastOp.op = "mark_messages_read"
    /\ lastOp.count > 0
    /\ \E m \in MsgIds :
          /\ messages[m].deliveryStatus = "read"
          /\ lastOp.user \in Range(messages[m].readBy)
          /\ lastOp.user # messages[m].sender

\* handler q holds a send_message received before the one of handler p
ReceivedBefore(q, p) == calls[q].pc # "idle" /\ calls[q].t < calls[p].t

\* C36: a handler broadcasts new_message only when no send_message received
\* earlier on the connection is still waiting to broadcast its own.
C36_RoomOrder ==
    [][\A p \in Callers, q \in Callers :
          (calls[p].pc = "saved" /\ calls'[p].pc = "idle")
             => ~ReceivedBefore(q, p)]_vars

\* C37: no typing or stopped-typing announcement is delivered to a
\* connection of the actor it names.
C37_NotToSelf ==
    \A i \in DOMAIN out :
       out[i].ev \in TypingAnnouncements
          => \A c \in out[i].to : connUser[c] # out[i].user

\* the events of the step all go to socket c alone, as socket events
OnlyTo(c) ==
    \A i \in DOMAIN out' :
       /\ out'[i].via = "socket"
       /\ out'[i].to = {c}
       /\ out'[i].ev \in {"chat_joined", "chat_left", "error"}

\* C38: a join_chat or leave_chat step emits to the originating socket only,
\* publishes nothing, and changes nothing but the rooms of that socket and the
\* active-chat and typing keys of its actor.
C38_JoinLeaveSilent ==
    [][lastOp'.op \in {"join_chat", "leave_chat"}
          => /\ OnlyTo(lastOp'.conn)
             /\ \A d \in Conns \ {lastOp'.conn} : connRooms'[d] = connRooms[d]
             /\ \A v \in Users \ {lastOp'.user} :
                   /\ activeChat'[v] = activeChat[v]
                   /\ \A r \in TypingKeys : typing'[r][v] = typing[r][v]
             /\ UNCHANGED <<connState, connUser, presence, rateKeys, messages,
                            chatMsgCache, timers>>]_vars

\* a socket has left a chat in which another member is subscribed and typing
C38_Witness ==
    /\ lastOp.op = "leave_chat"
    /\ out = <<Ev({lastOp.conn}, "chat_left", "", lastOp.chat, 0, "", 0)>>
    /\ \E d \in Open \ {lastOp.conn} :
          /\ ChatRoom(lastOp.chat) \in connRooms[d]
          /\ IsTyping(lastOp.chat, connUser[d])

====
